---- MODULE Spec2Model ----
(***************************************************************************)
(* bw-flasher: the DFU driver (src/bwflasher/flash_uart.py, class DFU).    *)
(*                                                                         *)
(* The driver object is the state; one action is one iteration of the      *)
(* run() loop (emit_state, the handler of the current state, emit_progress)*)
(* except SEND_FW, whose handler send_fw_packet is stepped through its     *)
(* chunk loop one send/receive at a time.  What the device answers is the  *)
(* input of every action.                                                  *)
(*                                                                         *)
(* Bytes are integers 0..255; what the device answers is a sequence of     *)
(* bytes.  Byte strings cut from the firmware (packet, data_sent, the data *)
(* of a chunk frame) are kept as sequences of runs: a window fw[lo:hi] of   *)
(* the loaded image or a number of 0xFF padding bytes.  The text commands   *)
(* written to the link are kept as records (command name and the fields    *)
(* the driver formats into it); CRC and signature values are kept as terms *)
(* over the bytes they are computed from.                                  *)
(***************************************************************************)
EXTENDS Integers, Sequences, FiniteSets, TLC

(***************************************************************************)
(* Program constants                                                       *)
(***************************************************************************)
PACKET_SIZE == 2048
CHUNK_SIZE == 128
CHUNKS_PER_PACKET == PACKET_SIZE \div CHUNK_SIZE
MAX_REPEATS == 20

BYTE_START == 100   \* b'\x64'
BYTE_END == 155     \* b'\x9B'
CMD_UID_1 == 42     \* cmd_get_uid[1] = 0x2A
UID_LEN == 16       \* 0x10
ACK == 6            \* b'\x06'
NAK == 21           \* b'\x15'

\* positional parameters accepted by keygen.sign_rand (uid, rand, fw, base_offset)
SIGN_RAND_PARAMS == 4
\* positional arguments the DFU call sites pass (uid, rand, fw, O0, O1)
SIGN_RAND_ARGS == 5

(***************************************************************************)
(* Bounds of the model                                                     *)
(***************************************************************************)
\* firmware images of 1..MaxPackets packets
MaxPackets == 2
\* consecutive iterations the device may leave one state unanswered
MaxStall == 21
MaxFileLen == 6
MaxPieces == 3
MaxPatLen == 2

(***************************************************************************)
(* Byte-string helpers (Python semantics)                                  *)
(***************************************************************************)
Min(a, b) == IF a < b THEN a ELSE b

\* s[a:b] for 0 <= a, 0 <= b
PySlice(s, a, b) == SubSeq(s, a + 1, Min(b, Len(s)))

\* s[-n:] for n > 0
PyTail(s, n) == SubSeq(s, IF Len(s) > n THEN Len(s) - n + 1 ELSE 1, Len(s))

\* b in s, for a single byte b
HasByte(b, s) == \E i \in 1..Len(s) : s[i] = b

\* s.index(b), 0-based, for a byte that occurs in s
IndexOf(b, s) == (CHOOSE i \in 1..Len(s) : s[i] = b /\ \A j \in 1..(i - 1) : s[j] # b) - 1

\* sub in s, for byte strings
Contains(sub, s) ==
    \E o \in 0..(Len(s) - Len(sub)) : \A j \in 1..Len(sub) : s[o + j] = sub[j]

\* s.startswith(p)
StartsWith(s, p) == Len(s) >= Len(p) /\ \A j \in 1..Len(p) : s[j] = p[j]

\* bytes.decode() succeeds on ASCII; the only non-ASCII byte the model's replies
\* carry is 0xFF, which no UTF-8 text contains
Decodes(s) == \A i \in 1..Len(s) : s[i] < 128

Repeat(b, n) == [i \in 1..n |-> b]

(***************************************************************************)
(* Firmware byte strings as runs.  A run [src, lo, hi] stands for the      *)
(* bytes fw[lo:hi] (src = "fw") or for hi bytes 0xFF (src = "pad", lo = 0); *)
(* no run is empty and adjacent runs that continue each other are merged,  *)
(* so equal run sequences are equal byte strings.                          *)
(***************************************************************************)
RunLen(r) == r.hi - r.lo

\* the n bytes of the loaded image
FwRuns(n) == IF n = 0 THEN <<>> ELSE <<[src |-> "fw", lo |-> 0, hi |-> n]>>

\* b'\xFF' * n
PadRuns(n) == IF n <= 0 THEN <<>> ELSE <<[src |-> "pad", lo |-> 0, hi |-> n]>>

RECURSIVE BLen(_)
\* len(s)
BLen(s) == IF s = <<>> THEN 0 ELSE RunLen(Head(s)) + BLen(Tail(s))

\* the run r without its first k bytes
TrimFront(r, k) ==
    IF r.src = "pad" THEN [r EXCEPT !.hi = r.hi - k] ELSE [r EXCEPT !.lo = r.lo + k]

RECURSIVE BDrop(_, _)
\* s[k:]
BDrop(s, k) ==
    IF k <= 0 \/ s = <<>> THEN s
    ELSE IF k >= RunLen(Head(s)) THEN BDrop(Tail(s), k - RunLen(Head(s)))
    ELSE <<TrimFront(Head(s), k)>> \o Tail(s)

RECURSIVE BTake(_, _)
\* s[:k]
BTake(s, k) ==
    IF k <= 0 \/ s = <<>> THEN <<>>
    ELSE IF k >= RunLen(Head(s)) THEN <<Head(s)>> \o BTake(Tail(s), k - RunLen(Head(s)))
    ELSE <<[Head(s) EXCEPT !.hi = Head(s).lo + k]>>

\* s[a:b] for 0 <= a, 0 <= b
BSlice(s, a, b) == BTake(BDrop(s, a), b - a)

\* s + t
BCat(s, t) ==
    IF s = <<>> THEN t
    ELSE IF t = <<>> THEN s
    ELSE LET l == s[Len(s)]
             f == Head(t)
         IN  IF l.src = "pad" /\ f.src = "pad"
             THEN SubSeq(s, 1, Len(s) - 1) \o <<[l EXCEPT !.hi = l.hi + f.hi]>> \o Tail(t)
             ELSE IF l.src = "fw" /\ f.src = "fw" /\ l.hi = f.lo
             THEN SubSeq(s, 1, Len(s) - 1) \o <<[l EXCEPT !.hi = f.hi]>> \o Tail(t)
             ELSE s \o t

B_ok == <<111, 107>>            \* b'ok'
B_k_cr == <<107, 13>>           \* b'k\r'
B_r_cr == <<114, 13>>           \* b'r\r'
B_ok_cr == <<111, 107, 13>>     \* b'ok\r'
B_cr == 13                      \* b'\r'

(***************************************************************************)
(* Terms for values computed by library code                               *)
(***************************************************************************)
\* binascii.crc_hqx(data, 0)
calculate_crc16(data) == [crc16_of |-> data]

\* binascii.crc32(data)
calculate_crc32(data) == [crc32_of |-> data]

\* sign_rand as the DFU call sites use it: a 16-byte signature of rand under the
\* key derived from uid and the tables of fw selected by (O0, O1)
sign_rand(uid_, rand, fw_, o0, o1) == [signed |-> rand, by |-> uid_, base |-> <<o0, o1>>]

\* self.ble_rand = bytearray(range(1, 17))
ble_rand == [i \in 1..16 |-> i]

(***************************************************************************)
(* Firmware images and load_file                                           *)
(***************************************************************************)
\* filler bytes in which neither 63 7C nor 01 02 occurs
Filler(o) == (3 * o) % 251

\* a file on disk is written as pieces: n filler bytes, or n times the byte b
Fill(n) == [fill |-> TRUE, b |-> 0, n |-> n]
Piece(b, n) == [fill |-> FALSE, b |-> b, n |-> n]

RECURSIVE FileLen(_)
\* len() of the file content
FileLen(f) == IF f = <<>> THEN 0 ELSE Head(f).n + FileLen(Tail(f))

RECURSIVE FileBytesFrom(_, _)
\* the bytes of the pieces f, the first of them at offset o of the file
FileBytesFrom(f, o) ==
    IF f = <<>> THEN <<>>
    ELSE [i \in 1..Head(f).n |-> IF Head(f).fill THEN Filler(o + i - 1) ELSE Head(f).b]
            \o FileBytesFrom(Tail(f), o + Head(f).n)

\* what open(firmware_file, 'rb').read() returns
FileBytes(f) == FileBytesFrom(f, 0)

\* an image of n bytes with 63 7C 01 02 at offset 16, as DFU images carry them
FwImage(n) ==
    <<Fill(16), Piece(99, 1), Piece(124, 1), Piece(1, 1), Piece(2, 1), Fill(n - 20)>>

\* an image without the signature patterns
FwPlain(n) == <<Fill(n)>>

\* the files load_file is given: images of 1..MaxPackets packets, the last packet
\* full or 100 bytes short, and a file that is no DFU image
FirmwareFiles ==
    {FwImage(k * PACKET_SIZE - d) : k \in 1..MaxPackets, d \in {0, 100}}
        \cup {FwPlain(PACKET_SIZE)}

\* no file read yet (self.fw is None)
NoFile == <<>>

\* every file of at most MaxFileLen bytes over the bytes of the two patterns and
\* 00, and images of one byte less than, exactly and one byte more than a packet
SmallFiles ==
    UNION {[1..n -> {Piece(b, 1) : b \in {99, 124, 1, 2, 0}}] : n \in 0..MaxFileLen}
        \cup {FwImage(PACKET_SIZE + d) : d \in {-1, 0, 1}}

\* bytes.find(pattern, start): the lowest offset >= start at which pattern occurs,
\* -1 if there is none
Find(data, pattern, start) ==
    LET hits == {o \in start..(Len(data) - Len(pattern)) :
                    \A j \in 1..Len(pattern) : data[o + j] = pattern[j]}
    IN  IF hits = {} THEN -1 ELSE CHOOSE o \in hits : \A h \in hits : o <= h

RECURSIVE FindAll(_, _, _, _)
\* utils.find_pattern_offsets: the while loop, entered with the first find
FindAll(data, pattern, offset, offsets) ==
    IF offset = -1 THEN offsets
    ELSE FindAll(data, pattern, Find(data, pattern, offset + 1), Append(offsets, offset))

RECURSIVE FindApart(_, _, _, _)
\* the while loop with the next search begun past the whole match
FindApart(data, pattern, offset, offsets) ==
    IF offset = -1 THEN offsets
    ELSE FindApart(data, pattern, Find(data, pattern, offset + Len(pattern)),
                   Append(offsets, offset))

\* mutant of find_pattern_offsets: overlapping occurrences are skipped
find_pattern_offsets_apart(pattern, binary_data, start_offset) ==
    IF pattern = <<>> THEN <<>>
    ELSE FindApart(binary_data, pattern, Find(binary_data, pattern, start_offset), <<>>)

\* utils.find_pattern_offsets, the pattern given as bytes
find_pattern_offsets(pattern, binary_data, start_offset) ==
    IF pattern = <<>> THEN <<>>
    ELSE FindAll(binary_data, pattern, Find(binary_data, pattern, start_offset), <<>>)

\* mutant of find_fw_offsets: a repeated 63 7C is accepted and the first one used
find_fw_offsets_first(fw_) ==
    LET offs0 == find_pattern_offsets(<<99, 124>>, fw_, 0)
    IN  IF Len(offs0) < 1 THEN [raised |-> TRUE, fw_offsets |-> <<>>]
        ELSE LET offs1 == find_pattern_offsets(<<1, 2>>, fw_, offs0[1])
             IN  IF Len(offs1) # 1 THEN [raised |-> TRUE, fw_offsets |-> <<>>]
                 ELSE [raised |-> FALSE, fw_offsets |-> <<offs0[1], offs1[1] - 1>>]

\* DFU.__find_fw_offsets: the offsets, or raised
find_fw_offsets(fw_) ==
    LET offs0 == find_pattern_offsets(<<99, 124>>, fw_, 0)
    IN  IF Len(offs0) # 1 THEN [raised |-> TRUE, fw_offsets |-> <<>>]
        ELSE LET offs1 == find_pattern_offsets(<<1, 2>>, fw_, offs0[1])
             IN  IF Len(offs1) # 1 THEN [raised |-> TRUE, fw_offsets |-> <<>>]
                 ELSE [raised |-> FALSE, fw_offsets |-> <<offs0[1], offs1[1] - 1>>]

\* math.ceil(len(fw) / PACKET_SIZE)
TotalPackets(fw_) == (FileLen(fw_) + PACKET_SIZE - 1) \div PACKET_SIZE

(***************************************************************************)
(* State                                                                   *)
(***************************************************************************)
VARIABLES
    pc,              \* "new", "loaded", "run", "done" (run() returned), "failed" (raised)
    err,             \* what was raised, "none" otherwise
    sign_rand_params,\* positional parameters of the sign_rand the driver is bound to
    state,           \* self.state
    prev_state,      \* self.prev_state
    fw,              \* self.fw: the file read (NoFile for None)
    fw_offsets,      \* self.fw_offsets
    total_packets,   \* self.total_packets
    n_packets_sent,  \* self.n_packets_sent
    packet,          \* self.packet, as runs (<<>> for None)
    data_sent,       \* self.data_sent, as runs
    uid,             \* self.uid (<<>> while unset)
    mcu_rand,        \* self.mcu_rand (<<>> for None)
    fw_pc,           \* position inside send_fw_packet: "none", "chunk", "trailer"
    chunk_n,         \* n of the chunk loop
    repeat,          \* repeat of the retry loop
    tx,              \* what send() wrote last
    tx_tick,         \* flips at every send()
    rx,              \* what receive_response() returned last
    progress,        \* last value given to progress_callback (-1: none yet)
    attempts,        \* loop iterations spent in the current state so far
    auth,            \* "none"; "ble" once the device returned the expected BLE_KEY;
                     \* "done" once it also acknowledged mcu_key with ok\r
    device_ok,       \* every reply so far was the valid reply to its command
    serial_conn,     \* self.serial_conn: "none", "open", "closed"
    retries,         \* retries of test_connection
    fw_size,         \* LeqiFlasher.fw_size
    offset,          \* offset of _send_firmware_data
    chunk_num,       \* chunk_num of _send_firmware_data
    failed_chunks,   \* failed_chunks of _send_firmware_data
    attempt,         \* attempt of _send_end_command
    cancel_requested,\* the host has asked the running driver to stop
    path,            \* the firmware file the host was given
    fw_type,         \* what detect_firmware_file returned ("none": not called yet)
    flasher,         \* the class create_flasher_for_firmware constructed
    input,           \* the argument a function under test is applied to
    output,          \* what it returned
    in_buf,          \* bytes received and not yet read (the port's input buffer)
    update_thread,   \* FirmwareUpdateGUI.update_thread: "none", "started"
    start_button     \* start_button.isEnabled(); test_button is always set with it

vars == <<pc, err, sign_rand_params, state, prev_state, fw, fw_offsets, total_packets,
          n_packets_sent, packet, data_sent, uid, mcu_rand, fw_pc, chunk_n, repeat,
          tx, tx_tick, rx, progress, attempts, auth, device_ok, serial_conn, retries,
          fw_size, offset, chunk_num, failed_chunks, attempt, cancel_requested,
          path, fw_type, flasher, input, output, in_buf, update_thread, start_button>>

fileVars == <<fw, fw_offsets, total_packets>>
packetVars == <<n_packets_sent, packet, data_sent>>
idVars == <<uid, mcu_rand>>
chunkVars == <<fw_pc, chunk_n, repeat>>
linkVars == <<tx, tx_tick, rx>>
leqiVars == <<fw_size, offset, chunk_num, failed_chunks, attempt>>
hostVars == <<serial_conn, retries, cancel_requested>>
toolVars == <<path, fw_type, flasher, input, output>>
guiVars == <<update_thread, start_button>>

\* no file chosen yet; a file is its raw bytes (content) and, when those bytes are
\* a ZIP archive, the members of the archive
NoPath == [readable |-> FALSE, content |-> <<>>, members |-> <<>>]

\* the fields as the constructors set them, the port apart
InitFields ==
    /\ pc = "new"
    /\ err = "none"
    /\ state = "UID"
    /\ prev_state = "UID"
    /\ fw = NoFile
    /\ fw_offsets = <<>>
    /\ total_packets = 0
    /\ n_packets_sent = 0
    /\ packet = <<>>
    /\ data_sent = <<>>
    /\ uid = <<>>
    /\ mcu_rand = <<>>
    /\ fw_pc = "none"
    /\ chunk_n = 0
    /\ repeat = 0
    /\ tx = [cmd |-> "none"]
    /\ tx_tick = 0
    /\ rx = <<>>
    /\ progress = -1
    /\ attempts = 0
    /\ auth = "none"
    /\ device_ok = TRUE
    /\ retries = 0
    /\ fw_size = 0
    /\ offset = 0
    /\ chunk_num = 0
    /\ failed_chunks = 0
    /\ attempt = 0
    /\ cancel_requested = FALSE
    /\ fw_type = "none"
    /\ flasher = "none"
    /\ output = <<>>
    /\ in_buf = <<>>
    /\ update_thread = "none"
    /\ start_button = TRUE

\* a driver constructed by hand: no file was classified, no function is under test
InitHost == path = NoPath /\ input = <<>>

\* DFU.__init__: the port is opened by the constructor
InitDFU == InitFields /\ InitHost /\ serial_conn = "open"

\* LeqiFlasher.__init__
InitLeqi ==
    InitFields /\ InitHost /\ serial_conn = "none" /\ sign_rand_params = SIGN_RAND_PARAMS

\* the driver with the sign_rand its call sites are written for
Init == InitDFU /\ sign_rand_params = SIGN_RAND_ARGS

\* the driver with keygen.sign_rand as it is in the source
InitSrc == InitDFU /\ sign_rand_params = SIGN_RAND_PARAMS

\* DFU.load_file on one of files
LoadFrom(files) ==
    /\ pc = "new"
    /\ \E f \in files :
         LET r == find_fw_offsets(FileBytes(f))
         IN  /\ fw' = f
             /\ fw_offsets' = r.fw_offsets
             /\ IF r.raised
                THEN /\ pc' = "failed"
                     /\ err' = "InvalidFirmware"
                     /\ total_packets' = total_packets
                ELSE /\ pc' = "loaded"
                     /\ err' = err
                     /\ total_packets' = TotalPackets(f)
    /\ UNCHANGED <<sign_rand_params, state, prev_state, packetVars, idVars, chunkVars,
                   linkVars, progress, attempts, auth, device_ok>>
    /\ UNCHANGED <<leqiVars, hostVars>>
    /\ UNCHANGED <<toolVars, in_buf>>
    /\ UNCHANGED guiVars

\* DFU.load_file on a firmware image
LoadFile == LoadFrom(FirmwareFiles)

\* DFU.load_file on an arbitrary short file
LoadAnyFile == LoadFrom(SmallFiles)

\* load_file alone, over all short files
SpecLoad == InitSrc /\ [][LoadAnyFile]_vars

\* the caller enters run() after load_file
RunEnter ==
    /\ pc = "loaded"
    /\ pc' = "run"
    /\ UNCHANGED <<err, sign_rand_params, state, prev_state, fileVars, packetVars,
                   idVars, chunkVars, linkVars, progress, attempts, auth, device_ok>>
    /\ UNCHANGED <<leqiVars, hostVars>>
    /\ UNCHANGED <<toolVars, in_buf>>
    /\ UNCHANGED guiVars

(***************************************************************************)
(* What the device may answer                                              *)
(***************************************************************************)
UID_ASCII == <<102, 111, 111, 98, 97, 114, 102, 111, 111, 98, 97, 114, 49, 51, 51, 55>>

\* 64 2A 10 <uid> 10 9B
UidFrame(u) == <<BYTE_START, CMD_UID_1, UID_LEN>> \o u \o <<UID_LEN, BYTE_END>>

\* a frame that carries only the first four bytes of the UID
ShortUidFrame == <<BYTE_START, CMD_UID_1, UID_LEN>> \o SubSeq(UID_ASCII, 1, 4) \o <<BYTE_END>>

\* a valid frame, nothing, a frame echoing another command, a frame with another
\* length byte, a frame cut after 0x64, one cut after 0x2A, one whose end never
\* came, and the short frame
UidReplies ==
    {UidFrame(UID_ASCII), <<>>,
     <<BYTE_START, CMD_UID_1 + 1, UID_LEN>> \o UID_ASCII \o <<UID_LEN, BYTE_END>>,
     <<BYTE_START, CMD_UID_1, UID_LEN + 1>> \o UID_ASCII \o <<UID_LEN, BYTE_END>>,
     <<BYTE_START, BYTE_END>>,
     <<BYTE_START, CMD_UID_1, BYTE_END>>,
     <<BYTE_START, CMD_UID_1, UID_LEN>>,
     ShortUidFrame}

\* b'0010\r', nothing, a line cut before its \r
VerReplies == {<<48, 48, 49, 48, B_cr>>, <<>>, <<48, 48, 49, 48>>}

\* b'ok\r', the tail b'or\r' of b'error\r', nothing
TextReplies == {B_ok_cr, <<111, 114, 13>>, <<>>}

ZeroKey == Repeat(0, 16)
DeviceRand == Repeat(170, 16)

\* replies to ble_rand / mcu_rand: the leading text and the 16 bytes response[3:19]
KeyReplies(good) ==
    {[text |-> B_ok, body |-> good], [text |-> B_ok, body |-> ZeroKey],
     [text |-> <<>>, body |-> <<>>]}

RandReplies == {[text |-> B_ok, body |-> DeviceRand], [text |-> <<>>, body |-> <<>>]}

\* one byte read after a chunk frame: 0x06, 0x15, nothing, another byte
ChunkReplies == {<<ACK>>, <<NAK>>, <<>>, <<ACK + 1>>}

(***************************************************************************)
(* The handlers: what each decides from the response it received           *)
(***************************************************************************)
\* DFU.get_uid
get_uid(response) ==
    LET stay == [state |-> "UID", uid_set |-> FALSE, uid |-> <<>>, raised |-> "none"]
    IN  IF ~(HasByte(BYTE_START, response) /\ HasByte(BYTE_END, response)) THEN stay
        ELSE LET r == PySlice(response, IndexOf(BYTE_START, response),
                                        IndexOf(BYTE_END, response))
             IN  IF Len(r) < 2 THEN [stay EXCEPT !.raised = "IndexError"]
                 ELSE IF r[2] # CMD_UID_1 THEN stay
                 ELSE IF Len(r) < 3 THEN [stay EXCEPT !.raised = "IndexError"]
                 ELSE IF r[3] # UID_LEN THEN stay
                 ELSE LET u == PySlice(r, 3, 3 + UID_LEN)
                      IN  IF ~Decodes(u)
                          THEN [state |-> "UID", uid_set |-> TRUE, uid |-> u,
                                raised |-> "UnicodeDecodeError"]
                          ELSE [state |-> "VER_INIT", uid_set |-> TRUE, uid |-> u,
                                raised |-> "none"]

\* DFU.get_ver
get_ver(st, response) ==
    IF HasByte(B_cr, PyTail(response, 2))
    THEN IF ~Decodes(response) THEN [state |-> st, raised |-> "UnicodeDecodeError"]
         ELSE IF st = "VER_INIT" THEN [state |-> "INIT", raised |-> "none"]
         ELSE IF st = "VER_DONE" THEN [state |-> "DONE", raised |-> "none"]
         ELSE [state |-> st, raised |-> "none"]
    ELSE [state |-> st, raised |-> "none"]

\* DFU.send_rd_info
send_rd_info(response) ==
    IF StartsWith(response, B_ok) THEN "BLE_RAND" ELSE "INIT"

\* DFU.send_ble_rand, after the command was written
send_ble_rand(response, ble_key_expected) ==
    IF StartsWith(response.text, B_ok)
    THEN [state |-> "MCU_RAND",
          raised |-> IF response.body # ble_key_expected THEN "AuthMismatch" ELSE "none"]
    ELSE [state |-> "BLE_RAND", raised |-> "none"]

\* DFU.request_mcu_rand
request_mcu_rand(response, cur) ==
    IF StartsWith(response.text, B_ok)
    THEN [state |-> "MCU_KEY", mcu_rand |-> response.body]
    ELSE [state |-> "MCU_RAND", mcu_rand |-> cur]

\* mutant of send_mcu_key: the reply is not compared with b'ok\r'
send_mcu_key_any(response) == "NVM_WRITE"

\* DFU.send_mcu_key
send_mcu_key(response) ==
    IF response = B_ok_cr THEN "NVM_WRITE" ELSE "MCU_KEY"

\* DFU.send_nvm_write: the window of fw and the offset announced
nvm_packet(fw_, n) == BSlice(FwRuns(FileLen(fw_)), n * PACKET_SIZE, (n + 1) * PACKET_SIZE)

\* mutant of nvm_loc: the offset announced is that of the packet after
nvm_loc_next(n) == (n + 1) * PACKET_SIZE

\* DFU.send_nvm_write: loc
nvm_loc(n) == n * PACKET_SIZE

send_nvm_write(response) ==
    IF Contains(B_k_cr, response) THEN "SEND_FW" ELSE "NVM_WRITE"

\* mutant of pad_packet: a short last packet is left unpadded
pad_packet_none(p) == p

\* DFU.send_fw_packet: the packet right-padded with 0xFF
pad_packet(p) ==
    IF BLen(p) < PACKET_SIZE THEN BCat(p, PadRuns(PACKET_SIZE - BLen(p))) ELSE p

\* mutant of chunk_frame: the index bytes are those of the loop variable, from 0
chunk_frame_from_zero(p, n) ==
    LET data_chunk == BSlice(p, n * CHUNK_SIZE, n * CHUNK_SIZE + CHUNK_SIZE)
    IN  [cmd |-> "chunk",
         head |-> <<1, n, 255 - n>>,
         data |-> data_chunk,
         crc16 |-> calculate_crc16(data_chunk)]

\* DFU.send_fw_packet: the frame of chunk n (n from 0)
chunk_frame(p, n) ==
    LET data_chunk == BSlice(p, n * CHUNK_SIZE, n * CHUNK_SIZE + CHUNK_SIZE)
    IN  [cmd |-> "chunk",
         head |-> <<1, n + 1, 255 - (n + 1)>>,
         data |-> data_chunk,
         crc16 |-> calculate_crc16(data_chunk)]

\* the CRC is appended as to_bytes(2, 'big')
CRC16_BYTES == 2

\* len() of a chunk frame on the wire
chunk_frame_len(f) == Len(f.head) + BLen(f.data) + CRC16_BYTES

\* mutant of chunk_step: 0x15 is treated like no answer
chunk_step_nak_retries(rep, response) ==
    IF response = <<ACK>>
    THEN IF rep + 1 = MAX_REPEATS THEN "NoAck" ELSE "next"
    ELSE IF rep + 1 < MAX_REPEATS THEN "retry"
    ELSE "NoAck"

\* mutant of chunk_step: any byte but 0x15 is taken for the acknowledgement
chunk_step_any_byte(rep, response) ==
    IF response # <<>> /\ response # <<NAK>>
    THEN IF rep + 1 = MAX_REPEATS THEN "NoAck" ELSE "next"
    ELSE IF response = <<NAK>> THEN "CrcFail"
    ELSE IF rep + 1 < MAX_REPEATS THEN "retry"
    ELSE "NoAck"

\* DFU.send_fw_packet: one pass of the retry loop and the test that follows the loop
chunk_step(rep, response) ==
    IF response = <<ACK>>
    THEN IF rep + 1 = MAX_REPEATS THEN "NoAck" ELSE "next"
    ELSE IF response = <<NAK>> THEN "CrcFail"
    ELSE IF rep + 1 < MAX_REPEATS THEN "retry"
    ELSE "NoAck"

\* DFU.send_wr_info: the command
wr_info_cmd(n, sent) ==
    [cmd |-> "wr_info", count |-> n, crc32 |-> calculate_crc32(sent),
     bytes |-> n * PACKET_SIZE]

\* mutant of send_wr_info: the test of self.packet is inverted
send_wr_info_inverted(response, p) ==
    IF Contains(B_k_cr, response)
    THEN IF p = <<>> THEN "NVM_WRITE" ELSE "DFU_VERIFY"
    ELSE "WR_INFO"

\* DFU.send_wr_info: the decision
send_wr_info(response, p) ==
    IF Contains(B_k_cr, response)
    THEN IF p # <<>> THEN "NVM_WRITE" ELSE "DFU_VERIFY"
    ELSE "WR_INFO"

\* mutant of verify_dfu: the error reply is not looked at
verify_dfu_ignores_error(response) ==
    IF Contains(B_k_cr, response) THEN [state |-> "DFU_ACTIVE", raised |-> "none"]
    ELSE [state |-> "DFU_VERIFY", raised |-> "none"]

\* DFU.verify_dfu
verify_dfu(response) ==
    IF Contains(B_k_cr, response) THEN [state |-> "DFU_ACTIVE", raised |-> "none"]
    ELSE IF Contains(B_r_cr, response) THEN [state |-> "DFU_VERIFY", raised |-> "VerifyFailed"]
    ELSE [state |-> "DFU_VERIFY", raised |-> "none"]

\* DFU.activate_dfu
activate_dfu(response) ==
    IF Contains(B_k_cr, response) THEN [state |-> "VER_DONE", raised |-> "none"]
    ELSE IF Contains(B_r_cr, response) THEN [state |-> "DFU_ACTIVE", raised |-> "ActivateFailed"]
    ELSE [state |-> "DFU_ACTIVE", raised |-> "none"]

\* DFU.emit_progress: int(n_packets_sent / total_packets * 100); the double
\* arithmetic gives the floor for every total_packets below 50
emit_progress(n, total) ==
    IF total = 0 THEN [raised |-> "ZeroDivisionError", perc |-> -1]
    ELSE [raised |-> "none", perc |-> (n * 100) \div total]

(***************************************************************************)
(* run(): one loop iteration per action                                    *)
(***************************************************************************)
\* an iteration may start: run() is executing, in state st, and the device has not
\* used up the stalls the model allows it
AtState(st) == pc = "run" /\ state = st /\ attempts < MaxStall

\* the part of an iteration common to the handlers that write one command and read
\* one response: emit_state, send, receive_response, the handler's new state st or
\* the exception it raised, then emit_progress and the loop test
LoopIter(cmd, response, st, raised, valid) ==
    LET p == emit_progress(n_packets_sent, total_packets)
        ex == IF raised # "none" THEN raised ELSE p.raised
    IN  /\ tx' = cmd
        /\ tx_tick' = 1 - tx_tick
        /\ rx' = response
        /\ state' = st
        /\ attempts' = IF st = state THEN attempts + 1 ELSE 0
        /\ device_ok' = (device_ok /\ valid)
        /\ IF ex # "none"
           THEN /\ pc' = "failed"
                /\ err' = ex
                /\ progress' = progress
                /\ prev_state' = state
           ELSE /\ pc' = IF st = "DONE" THEN "done" ELSE "run"
                /\ err' = err
                /\ progress' = p.perc
                /\ prev_state' = IF st = "DONE" THEN "DONE" ELSE state

\* state UID: get_uid
RunGetUid ==
    /\ AtState("UID")
    /\ \E response \in UidReplies :
         LET r == get_uid(response)
         IN  /\ LoopIter([cmd |-> "get_uid"], response, r.state, r.raised,
                         response = UidFrame(UID_ASCII))
             /\ uid' = IF r.uid_set THEN r.uid ELSE uid
    /\ UNCHANGED <<sign_rand_params, fileVars, packetVars, mcu_rand, chunkVars, auth>>
    /\ UNCHANGED <<leqiVars, hostVars>>
    /\ UNCHANGED <<toolVars, in_buf>>
    /\ UNCHANGED guiVars

\* states VER_INIT and VER_DONE: get_ver
RunGetVer ==
    /\ \/ AtState("VER_INIT")
       \/ AtState("VER_DONE")
    /\ \E response \in VerReplies :
         LET r == get_ver(state, response)
         IN  LoopIter([cmd |-> "get_ver"], response, r.state, r.raised,
                      HasByte(B_cr, response))
    /\ UNCHANGED <<sign_rand_params, fileVars, packetVars, idVars, chunkVars, auth>>
    /\ UNCHANGED <<leqiVars, hostVars>>
    /\ UNCHANGED <<toolVars, in_buf>>
    /\ UNCHANGED guiVars

\* state INIT: send_rd_info
RunSendRdInfo ==
    /\ AtState("INIT")
    /\ \E response \in TextReplies :
         LoopIter([cmd |-> "rd_info"], response, send_rd_info(response), "none",
                  response = B_ok_cr)
    /\ UNCHANGED <<sign_rand_params, fileVars, packetVars, idVars, chunkVars, auth>>
    /\ UNCHANGED <<leqiVars, hostVars>>
    /\ UNCHANGED <<toolVars, in_buf>>
    /\ UNCHANGED guiVars

\* state BLE_RAND: send_ble_rand.  The call of sign_rand comes first and raises
\* TypeError when the function takes fewer positional parameters than are passed.
RunSendBleRand ==
    /\ AtState("BLE_RAND")
    /\ IF sign_rand_params < SIGN_RAND_ARGS
       THEN /\ pc' = "failed"
            /\ err' = "TypeError"
            /\ prev_state' = state
            /\ UNCHANGED <<state, linkVars, progress, attempts, auth, device_ok>>
       ELSE LET ble_key_expected ==
                    sign_rand(uid, ble_rand, fw, fw_offsets[1], fw_offsets[2])
            IN  \E response \in KeyReplies(ble_key_expected) :
                  LET r == send_ble_rand(response, ble_key_expected)
                  IN  /\ LoopIter([cmd |-> "ble_rand", rand |-> ble_rand], response,
                                  r.state, r.raised,
                                  response.body = ble_key_expected)
                      /\ auth' = IF /\ StartsWith(response.text, B_ok)
                                    /\ response.body = ble_key_expected
                                 THEN "ble" ELSE auth
    /\ UNCHANGED <<sign_rand_params, fileVars, packetVars, idVars, chunkVars>>
    /\ UNCHANGED <<leqiVars, hostVars>>
    /\ UNCHANGED <<toolVars, in_buf>>
    /\ UNCHANGED guiVars

\* state MCU_RAND: request_mcu_rand
RunRequestMcuRand ==
    /\ AtState("MCU_RAND")
    /\ \E response \in RandReplies :
         LET r == request_mcu_rand(response, mcu_rand)
         IN  /\ LoopIter([cmd |-> "mcu_rand"], response, r.state, "none",
                         StartsWith(response.text, B_ok))
             /\ mcu_rand' = r.mcu_rand
    /\ UNCHANGED <<sign_rand_params, fileVars, packetVars, uid, chunkVars, auth>>
    /\ UNCHANGED <<leqiVars, hostVars>>
    /\ UNCHANGED <<toolVars, in_buf>>
    /\ UNCHANGED guiVars

\* state MCU_KEY: send_mcu_key
RunSendMcuKey ==
    /\ AtState("MCU_KEY")
    /\ IF sign_rand_params < SIGN_RAND_ARGS
       THEN /\ pc' = "failed"
            /\ err' = "TypeError"
            /\ prev_state' = state
            /\ UNCHANGED <<state, linkVars, progress, attempts, auth, device_ok>>
       ELSE LET mcu_key == sign_rand(uid, mcu_rand, fw, fw_offsets[1], fw_offsets[2])
            IN  \E response \in TextReplies :
                  /\ LoopIter([cmd |-> "mcu_key", key |-> mcu_key], response,
                              send_mcu_key(response), "none", response = B_ok_cr)
                  /\ auth' = IF auth = "ble" /\ response = B_ok_cr THEN "done" ELSE auth
    /\ UNCHANGED <<sign_rand_params, fileVars, packetVars, idVars, chunkVars>>
    /\ UNCHANGED <<leqiVars, hostVars>>
    /\ UNCHANGED <<toolVars, in_buf>>
    /\ UNCHANGED guiVars

\* state NVM_WRITE: send_nvm_write
RunSendNvmWrite ==
    /\ AtState("NVM_WRITE")
    /\ packet' = nvm_packet(fw, n_packets_sent)
    /\ \E response \in TextReplies :
         LoopIter([cmd |-> "nvm_write", loc |-> nvm_loc(n_packets_sent)], response,
                  send_nvm_write(response), "none", response = B_ok_cr)
    /\ UNCHANGED <<sign_rand_params, fileVars, n_packets_sent, data_sent, idVars,
                   chunkVars, auth>>
    /\ UNCHANGED <<leqiVars, hostVars>>
    /\ UNCHANGED <<toolVars, in_buf>>
    /\ UNCHANGED guiVars

\* state SEND_FW: send_fw_packet is entered; a packet that is not empty is padded
\* and its chunk loop starts, an empty one goes straight to the trailer
SendFwBegin ==
    /\ AtState("SEND_FW")
    /\ fw_pc = "none"
    /\ prev_state' = state
    /\ IF packet # <<>>
       THEN /\ packet' = pad_packet(packet)
            /\ fw_pc' = "chunk"
       ELSE /\ packet' = packet
            /\ fw_pc' = "trailer"
    /\ chunk_n' = 0
    /\ repeat' = 0
    /\ UNCHANGED <<pc, err, sign_rand_params, state, fileVars, n_packets_sent, data_sent,
                   idVars, linkVars, progress, attempts, auth, device_ok>>
    /\ UNCHANGED <<leqiVars, hostVars>>
    /\ UNCHANGED <<toolVars, in_buf>>
    /\ UNCHANGED guiVars

\* send_fw_packet: one send of the frame of chunk chunk_n and the byte read for it
SendChunk ==
    /\ pc = "run"
    /\ state = "SEND_FW"
    /\ fw_pc = "chunk"
    /\ \E response \in ChunkReplies :
         LET what == chunk_step(repeat, response)
         IN  /\ tx' = chunk_frame(packet, chunk_n)
             /\ tx_tick' = 1 - tx_tick
             /\ rx' = response
             /\ device_ok' = (device_ok /\ response = <<ACK>>)
             /\ CASE what = "next" ->
                       /\ IF chunk_n + 1 < CHUNKS_PER_PACKET
                          THEN chunk_n' = chunk_n + 1 /\ fw_pc' = fw_pc
                          ELSE chunk_n' = chunk_n /\ fw_pc' = "trailer"
                       /\ repeat' = 0
                       /\ UNCHANGED <<pc, err>>
                  [] what = "retry" ->
                       /\ repeat' = repeat + 1
                       /\ UNCHANGED <<pc, err, chunk_n, fw_pc>>
                  [] OTHER ->
                       /\ pc' = "failed"
                       /\ err' = what
                       /\ UNCHANGED <<chunk_n, fw_pc, repeat>>
    /\ UNCHANGED <<sign_rand_params, state, prev_state, fileVars, packetVars, idVars,
                   progress, attempts, auth>>
    /\ UNCHANGED <<leqiVars, hostVars>>
    /\ UNCHANGED <<toolVars, in_buf>>
    /\ UNCHANGED guiVars

\* send_fw_packet: the trailer 04 04 04, the counters, the state; then emit_progress
SendTrailer ==
    /\ pc = "run"
    /\ state = "SEND_FW"
    /\ fw_pc = "trailer"
    /\ \E response \in {<<ACK>>, <<>>} :
         LET p == emit_progress(n_packets_sent + 1, total_packets)
         IN  /\ tx' = [cmd |-> "eot"]
             /\ tx_tick' = 1 - tx_tick
             /\ rx' = response
             /\ device_ok' = (device_ok /\ response = <<ACK>>)
             /\ n_packets_sent' = n_packets_sent + 1
             /\ data_sent' = BCat(data_sent, packet)
             /\ state' = "WR_INFO"
             /\ attempts' = 0
             /\ fw_pc' = "none"
             /\ IF p.raised # "none"
                THEN pc' = "failed" /\ err' = p.raised /\ progress' = progress
                ELSE pc' = pc /\ err' = err /\ progress' = p.perc
    /\ UNCHANGED <<sign_rand_params, prev_state, fileVars, packet, idVars, chunk_n,
                   repeat, auth>>
    /\ UNCHANGED <<leqiVars, hostVars>>
    /\ UNCHANGED <<toolVars, in_buf>>
    /\ UNCHANGED guiVars

\* state WR_INFO: send_wr_info
RunSendWrInfo ==
    /\ AtState("WR_INFO")
    /\ \E response \in TextReplies :
         LoopIter(wr_info_cmd(n_packets_sent, data_sent), response,
                  send_wr_info(response, packet), "none", response = B_ok_cr)
    /\ UNCHANGED <<sign_rand_params, fileVars, packetVars, idVars, chunkVars, auth>>
    /\ UNCHANGED <<leqiVars, hostVars>>
    /\ UNCHANGED <<toolVars, in_buf>>
    /\ UNCHANGED guiVars

\* state DFU_VERIFY: verify_dfu
RunVerifyDfu ==
    /\ AtState("DFU_VERIFY")
    /\ \E response \in TextReplies :
         LET r == verify_dfu(response)
         IN  LoopIter([cmd |-> "dfu_verify"], response, r.state, r.raised,
                      response = B_ok_cr)
    /\ UNCHANGED <<sign_rand_params, fileVars, packetVars, idVars, chunkVars, auth>>
    /\ UNCHANGED <<leqiVars, hostVars>>
    /\ UNCHANGED <<toolVars, in_buf>>
    /\ UNCHANGED guiVars

\* state DFU_ACTIVE: activate_dfu
RunActivateDfu ==
    /\ AtState("DFU_ACTIVE")
    /\ \E response \in TextReplies :
         LET r == activate_dfu(response)
         IN  LoopIter([cmd |-> "dfu_active"], response, r.state, r.raised,
                      response = B_ok_cr)
    /\ UNCHANGED <<sign_rand_params, fileVars, packetVars, idVars, chunkVars, auth>>
    /\ UNCHANGED <<leqiVars, hostVars>>
    /\ UNCHANGED <<toolVars, in_buf>>
    /\ UNCHANGED guiVars

Next ==
    \/ LoadFile
    \/ RunEnter
    \/ RunGetUid
    \/ RunGetVer
    \/ RunSendRdInfo
    \/ RunSendBleRand
    \/ RunRequestMcuRand
    \/ RunSendMcuKey
    \/ RunSendNvmWrite
    \/ SendFwBegin
    \/ SendChunk
    \/ SendTrailer
    \/ RunSendWrInfo
    \/ RunVerifyDfu
    \/ RunActivateDfu

\* the driver with a sign_rand that takes the arguments the call sites pass
Spec == Init /\ [][Next]_vars

\* the steps a run can take with keygen.sign_rand as it is in the source
NextSrc ==
    \/ LoadFile
    \/ RunEnter
    \/ RunGetUid
    \/ RunGetVer
    \/ RunSendRdInfo
    \/ RunSendBleRand

\* the driver with keygen.sign_rand as it is in the source
SpecSrc == InitSrc /\ [][NextSrc]_vars

(***************************************************************************)
(* DFU.test_connection                                                     *)
(***************************************************************************)
\* mutant of test_retries: the counter is not restarted when the state changed
test_retries_kept(st, prev, r) == r

\* test_connection, top of the loop: retries restarts when the state has changed
test_retries(st, prev, r) == IF st # prev THEN 0 ELSE r

\* the GUI calls test_connection on a driver it has just constructed
TestEnter ==
    /\ pc = "new"
    /\ pc' = "test"
    /\ retries' = 0
    /\ UNCHANGED <<err, sign_rand_params, state, prev_state, fileVars, packetVars, idVars,
                   chunkVars, linkVars, progress, attempts, auth, device_ok, leqiVars,
                   serial_conn, cancel_requested>>
    /\ UNCHANGED <<toolVars, in_buf>>
    /\ UNCHANGED guiVars

\* one pass of the loop that calls a handler: emit_state, the command, the
\* response, the handler's new state st or what it raised, retries += 1
TestIter(cmd, response, st, raised, valid) ==
    /\ pc = "test"
    /\ test_retries(state, prev_state, retries) # MAX_REPEATS
    /\ prev_state' = state
    /\ tx' = cmd
    /\ tx_tick' = 1 - tx_tick
    /\ rx' = response
    /\ state' = st
    /\ attempts' = IF st = state THEN attempts + 1 ELSE 0
    /\ device_ok' = (device_ok /\ valid)
    /\ IF raised # "none"
       THEN /\ pc' = "failed"
            /\ err' = raised
            /\ retries' = test_retries(state, prev_state, retries)
       ELSE /\ pc' = pc
            /\ err' = err
            /\ retries' = test_retries(state, prev_state, retries) + 1

\* test_connection in state UID
TestGetUid ==
    /\ state = "UID"
    /\ \E response \in UidReplies :
         LET r == get_uid(response)
         IN  /\ TestIter([cmd |-> "get_uid"], response, r.state, r.raised,
                         response = UidFrame(UID_ASCII))
             /\ uid' = IF r.uid_set THEN r.uid ELSE uid
    /\ UNCHANGED <<sign_rand_params, fileVars, packetVars, mcu_rand, chunkVars, progress,
                   auth, leqiVars, serial_conn, cancel_requested>>
    /\ UNCHANGED <<toolVars, in_buf>>
    /\ UNCHANGED guiVars

\* test_connection in state VER_INIT
TestGetVer ==
    /\ state = "VER_INIT"
    /\ \E response \in VerReplies :
         LET r == get_ver(state, response)
         IN  TestIter([cmd |-> "get_ver"], response, r.state, r.raised,
                      HasByte(B_cr, response))
    /\ UNCHANGED <<sign_rand_params, fileVars, packetVars, idVars, chunkVars, progress,
                   auth, leqiVars, serial_conn, cancel_requested>>
    /\ UNCHANGED <<toolVars, in_buf>>
    /\ UNCHANGED guiVars

\* test_connection: retries == MAX_REPEATS at the top of the loop
TestGiveUp ==
    /\ pc = "test"
    /\ state # "INIT"
    /\ test_retries(state, prev_state, retries) = MAX_REPEATS
    /\ retries' = test_retries(state, prev_state, retries)
    /\ pc' = "failed"
    /\ err' = "ConnectionFailed"
    /\ UNCHANGED <<sign_rand_params, state, prev_state, fileVars, packetVars, idVars,
                   chunkVars, linkVars, progress, attempts, auth, device_ok, leqiVars,
                   serial_conn, cancel_requested>>
    /\ UNCHANGED <<toolVars, in_buf>>
    /\ UNCHANGED guiVars

\* test_connection: the loop ends in state INIT; progress 100, state = WR_INFO
TestDone ==
    /\ pc = "test"
    /\ state = "INIT"
    /\ progress' = 100
    /\ state' = "WR_INFO"
    /\ pc' = "tested"
    /\ UNCHANGED <<err, sign_rand_params, prev_state, fileVars, packetVars, idVars,
                   chunkVars, linkVars, attempts, auth, device_ok, leqiVars, hostVars>>
    /\ UNCHANGED <<toolVars, in_buf>>
    /\ UNCHANGED guiVars

NextTest ==
    \/ TestEnter
    \/ TestGetUid
    \/ TestGetVer
    \/ TestGiveUp
    \/ TestDone

\* a connection test on a new driver; the thread that runs it keeps running
SpecTest == InitSrc /\ [][NextTest]_vars /\ WF_vars(NextTest)

(***************************************************************************)
(* LeqiFlasher: firmware type and firmware size                            *)
(***************************************************************************)
LEQI_CHUNK_SIZE == 128
AA == 170
AA_MIN_RUN == 500
MIN_LEQI_LEN == 1024
SCAN_FROM == 128
MIN_AA_A2 == 10
MIN_AA == 50
END_RETRIES == 10

\* bytes.count(b'\xaa\xa2') on data: the two bytes differ, so occurrences never
\* overlap
CountAAA2(data) ==
    Cardinality({o \in 1..(Len(data) - 1) : data[o] = AA /\ data[o + 1] = 162})

\* bytes.count(0xAA) on data
CountAA(data) == Cardinality({o \in 1..Len(data) : data[o] = AA})

\* LeqiFlasher.detect_firmware_type
leqi_detect_firmware_type(firmware_data) ==
    IF Len(firmware_data) < MIN_LEQI_LEN THEN "UNKNOWN"
    ELSE LET window == PySlice(firmware_data, SCAN_FROM, MIN_LEQI_LEN)
         IN  IF CountAAA2(window) > MIN_AA_A2 /\ CountAA(window) > MIN_AA
             THEN "LEQI" ELSE "UNKNOWN"

\* the first offset >= i at which data holds a byte that is (aa = TRUE) or is not
\* (aa = FALSE) 0xAA; len(data) if there is none
ScanTo(data, i, aa) ==
    LET stops == {j \in i..(Len(data) - 1) : (data[j + 1] = AA) = aa}
    IN  IF stops = {} THEN Len(data) ELSE CHOOSE j \in stops : \A k \in stops : j <= k

\* mutant of aa_run_counts: a run of exactly 500 counts as well
aa_run_counts_from_500(length, max_aa_length) ==
    length > max_aa_length /\ length >= AA_MIN_RUN

\* calculate_firmware_size: the test applied to a run that has just ended
aa_run_counts(length, max_aa_length) ==
    length > max_aa_length /\ length > AA_MIN_RUN

RECURSIVE ScanRuns(_, _, _, _)
\* calculate_firmware_size: the outer loop from offset i on.  At a 0xAA byte the
\* inner loop runs to the end of the run; the passes through the else branch,
\* each of which only adds 1 to i, are taken together up to the next 0xAA byte.
ScanRuns(data, i, max_aa_length, max_aa_end) ==
    IF i >= Len(data) THEN [max_aa_length |-> max_aa_length, max_aa_end |-> max_aa_end]
    ELSE IF data[i + 1] = AA
    THEN LET e == ScanTo(data, i, FALSE)
         IN  IF aa_run_counts(e - i, max_aa_length)
             THEN ScanRuns(data, e, e - i, e)
             ELSE ScanRuns(data, e, max_aa_length, max_aa_end)
    ELSE ScanRuns(data, ScanTo(data, i, TRUE), max_aa_length, max_aa_end)

\* LeqiFlasher.calculate_firmware_size
calculate_firmware_size(firmware_data) ==
    LET r == ScanRuns(firmware_data, 0, 0, 0)
    IN  IF r.max_aa_end > 0
        THEN ((r.max_aa_end + 127) \div 128) * 128
        ELSE Len(firmware_data)

\* byte strings of at most MaxPieces pieces of 0xAA or 00 bytes, of lengths
\* around the 500 bytes a run must exceed
SizeInputs ==
    UNION {[1..n -> {Piece(b, k) : b \in {AA, 0}, k \in {1, 11, 500, 501}}] :
             n \in 0..MaxPieces}

\* calculate_firmware_size applied to a byte string
CalculateFirmwareSize ==
    /\ pc = "new"
    /\ \E f \in SizeInputs :
         /\ fw' = f
         /\ fw_size' = calculate_firmware_size(FileBytes(f))
    /\ pc' = "sized"
    /\ UNCHANGED <<err, sign_rand_params, state, prev_state, fw_offsets, total_packets,
                   packetVars, idVars, chunkVars, linkVars, progress, attempts, auth,
                   device_ok, offset, chunk_num, failed_chunks, attempt, hostVars>>
    /\ UNCHANGED <<toolVars, in_buf>>
    /\ UNCHANGED guiVars

\* calculate_firmware_size alone, over the byte strings of SizeInputs
SpecSize == InitLeqi /\ [][CalculateFirmwareSize]_vars

(***************************************************************************)
(* LeqiFlasher.load_file and run                                           *)
(***************************************************************************)
\* the fields only the DFU driver has
dfuVars == <<sign_rand_params, state, prev_state, fw_offsets, total_packets, packetVars,
             idVars, chunkVars, attempts, auth>>

\* the start of a Leqi image: 0x80 bytes, eleven AA A2 pairs, sixty AA bytes
LeqiHead ==
    <<Piece(0, SCAN_FROM)>> \o [i \in 1..22 |-> Piece(IF i % 2 = 1 THEN AA ELSE 162, 1)]
        \o <<Piece(AA, 60)>>

\* the files LeqiFlasher.load_file is given: images of 1024 and 1100 bytes without
\* a long AA run, an image whose long AA run ends before the end of the file, one
\* whose long AA run ends the file off a multiple of 128, and two files that are
\* no Leqi images
LeqiFiles ==
    {LeqiHead \o <<Piece(0, 814)>>,
     LeqiHead \o <<Piece(0, 890)>>,
     LeqiHead \o <<Piece(0, 1), Piece(AA, 600), Piece(0, 213)>>,
     LeqiHead \o <<Piece(0, 290), Piece(AA, 600)>>,
     <<Piece(0, MIN_LEQI_LEN)>>,
     <<Piece(AA, 100)>>}

\* LeqiFlasher.load_file on one of files
LeqiLoadFrom(files) ==
    /\ pc = "new"
    /\ \E f \in files :
         /\ fw' = f
         /\ IF leqi_detect_firmware_type(FileBytes(f)) # "LEQI"
            THEN /\ pc' = "failed"
                 /\ err' = "NotLeqi"
                 /\ fw_size' = fw_size
            ELSE /\ pc' = "loaded"
                 /\ err' = err
                 /\ fw_size' = calculate_firmware_size(FileBytes(f))
    /\ UNCHANGED <<dfuVars, linkVars, progress, device_ok, offset, chunk_num,
                   failed_chunks, attempt, hostVars>>
    /\ UNCHANGED <<toolVars, in_buf>>
    /\ UNCHANGED guiVars

\* LeqiFlasher.load_file on a Leqi image or on a file that is none
LeqiLoadFile == LeqiLoadFrom(LeqiFiles)

\* LeqiFlasher.run: the port is opened, or serial.Serial raises
LeqiRunEnter ==
    /\ pc = "loaded"
    /\ \E opened \in BOOLEAN :
         IF opened
         THEN pc' = "start" /\ err' = err /\ serial_conn' = "open"
         ELSE pc' = "failed" /\ err' = "SerialError" /\ serial_conn' = serial_conn
    /\ UNCHANGED <<dfuVars, fw, linkVars, progress, device_ok, leqiVars, retries,
                   cancel_requested>>
    /\ UNCHANGED <<toolVars, in_buf>>
    /\ UNCHANGED guiVars

HEADER == 90
EXPECTED_LEN == 7

\* mutant of reset_input_buffer: what was received stays in the buffer
reset_input_buffer_kept(buf) == buf

\* serial_conn.reset_input_buffer() at the top of _send_and_receive
reset_input_buffer(buf) == <<>>

\* _send_and_receive, the two read loops over the bytes incoming before the
\* timeout: bytes are read and dropped up to the first 0x5A; without one the
\* result is None (<<>>); else up to expected_len bytes are read from the header
\* on and what follows them stays in the buffer
read_response(incoming, expected_len) ==
    LET headers == {i \in 1..Len(incoming) : incoming[i] = HEADER}
    IN  IF headers = {} THEN [response |-> <<>>, rest |-> <<>>]
        ELSE LET h == CHOOSE i \in headers : \A k \in headers : i <= k
                 last == Min(h + expected_len - 1, Len(incoming))
             IN  [response |-> SubSeq(incoming, h, last),
                  rest |-> SubSeq(incoming, last + 1, Len(incoming))]

\* LeqiFlasher._send_and_receive with buf in the input buffer, wire what the
\* controller sends once the frame is written
send_and_receive(buf, wire) == read_response(reset_input_buffer(buf) \o wire, EXPECTED_LEN)

\* what the controller sends in answer to a Start frame (<<>>: nothing in time)
StartReplies ==
    {<<90, 33, 3, 1, 1, 104, 38>>, <<>>, <<90, 33, 3, 1>>, <<90, 33, 4, 1, 1, 237, 182>>,
     <<90, 33, 3, 1, 0, 120, 7>>}

\* what the controller sends in answer to a Data frame
DataReplies ==
    {<<90, 33, 4, 1, 1, 237, 182>>, <<>>, <<90, 33, 4, 1>>, <<90, 33, 3, 1, 1, 104, 38>>,
     <<90, 33, 4, 1, 0, 253, 151>>}

\* what the controller sends in answer to an End frame
EndReplies == {<<90, 33, 5, 1, 1, 85, 167>>, <<>>, <<90, 33, 4, 1, 1, 237, 182>>}

CRC16_POLY == 4129

RECURSIVE XorBits(_, _, _)
\* a ^ b for a, b below 2^w: the low half of the bits and the high half
XorBits(a, b, w) ==
    IF w = 1 THEN (a + b) % 2
    ELSE XorBits(a % (2 ^ (w \div 2)), b % (2 ^ (w \div 2)), w \div 2)
         + ((2 ^ (w \div 2))
            * XorBits(a \div (2 ^ (w \div 2)), b \div (2 ^ (w \div 2)), w - (w \div 2)))

\* a ^ b on the non-negative integers below 2^32
Xor(a, b) == XorBits(a, b, 32)

\* crc16_standard, the body of the inner loop: one shift of the register
crc16_shift(crc) ==
    IF (crc \div 32768) % 2 = 1
    THEN Xor(crc * 2, CRC16_POLY) % 65536
    ELSE (crc * 2) % 65536

RECURSIVE crc16_shifts(_, _)
\* k passes of the inner loop
crc16_shifts(crc, k) == IF k = 0 THEN crc ELSE crc16_shifts(crc16_shift(crc), k - 1)

\* crc16_standard, one pass of the outer loop: crc ^= byte << 8, then eight shifts
crc16_update(crc, byte) == crc16_shifts(Xor(crc, byte * 256), 8)

RECURSIVE crc16_regs(_, _)
\* the outer loop over data: regs holds the register as it was initialised and
\* then after the pass for each byte taken so far
crc16_regs(regs, data) ==
    IF Len(regs) > Len(data) THEN regs
    ELSE crc16_regs(Append(regs, crc16_update(regs[Len(regs)], data[Len(regs)])), data)

\* mutant of crc16_standard: the register starts at 0xFFFF
crc16_standard_ffff(data) ==
    LET regs == crc16_regs(<<65535>>, data) IN regs[Len(regs)] % 65536

\* LeqiFlasher.crc16_standard: crc = 0, the loop, return crc & 0xFFFF
crc16_standard(data) ==
    LET regs == crc16_regs(<<0>>, data) IN regs[Len(regs)] % 65536

\* struct.pack('>H', crc): high byte first
struct_pack_H_be(v) == <<v \div 256, v % 256>>

\* _send_start_command: the frame up to the CRC, for the size field given
start_packet(size_le) == <<90, 18, 3, 6, 49, 0>> \o size_le \o <<0, 0>>

\* _send_end_command: the frame up to the CRC
end_packet == <<90, 18, 5, 0>>

\* mutant of struct_pack_H: a value that does not fit is cut to its low 16 bits
struct_pack_H_wraps(v) == [raised |-> FALSE, bytes |-> <<v % 256, (v \div 256) % 256>>]

\* struct.pack('<H', v): the two bytes of v, low byte first; struct.error for a
\* value outside 0..0xFFFF
struct_pack_H(v) ==
    IF v < 0 \/ v > 65535 THEN [raised |-> TRUE, bytes |-> <<>>]
    ELSE [raised |-> FALSE, bytes |-> <<v % 256, v \div 256>>]

\* the frame as it is written: the Start frame with its size field and the CRC
\* over start_packet, the End frame with the CRC over end_packet
start_frame(size) ==
    [cmd |-> "start", size_le |-> struct_pack_H(size).bytes,
     crc16 |-> struct_pack_H_be(crc16_standard(start_packet(struct_pack_H(size).bytes)))]

end_frame == [cmd |-> "end", crc16 |-> struct_pack_H_be(crc16_standard(end_packet))]

\* mutant of start_rejected: the response is not looked at
start_rejected_never(response) == FALSE

\* _send_start_command: the test that raises
start_rejected(response) ==
    response = <<>> \/ Len(response) < 5 \/ response[2] # 33 \/ response[3] # 3

\* LeqiFlasher._send_start_command
LeqiSendStart ==
    /\ pc = "start"
    /\ IF struct_pack_H(fw_size).raised
       THEN /\ pc' = "failed"
            /\ err' = "StructError"
            /\ UNCHANGED <<linkVars, device_ok, in_buf>>
       ELSE \E wire \in StartReplies :
            \E response \in {send_and_receive(in_buf, wire).response} :
              /\ tx' = start_frame(fw_size)
              /\ tx_tick' = 1 - tx_tick
              /\ rx' = response
              /\ in_buf' = send_and_receive(in_buf, wire).rest
              /\ device_ok' = (device_ok /\ ~start_rejected(response))
              /\ IF start_rejected(response)
                 THEN pc' = "failed" /\ err' = "StartRejected"
                 ELSE pc' = "data" /\ err' = err
    /\ offset' = 0
    /\ chunk_num' = 0
    /\ failed_chunks' = 0
    /\ UNCHANGED <<dfuVars, fw, fw_size, attempt, progress, hostVars>>
    /\ UNCHANGED toolVars
    /\ UNCHANGED guiVars

\* mutant of leqi_pad: a short last chunk is sent as it is
leqi_pad_none(chunk_data) == chunk_data

\* _send_firmware_data: the chunk right-padded with 0xFF to CHUNK_SIZE bytes
leqi_pad(chunk_data) ==
    IF BLen(chunk_data) < LEQI_CHUNK_SIZE
    THEN BCat(chunk_data, PadRuns(LEQI_CHUNK_SIZE - BLen(chunk_data)))
    ELSE chunk_data

\* _send_firmware_data: the Data frame for encrypted_fw[offset:chunk_end]
leqi_data_frame(fw_, off, chunk_end) ==
    LET chunk_data == leqi_pad(BSlice(FwRuns(FileLen(fw_)), off, chunk_end))
    IN  [cmd |-> "data", offset |-> off, data |-> chunk_data,
         crc16 |-> [crc16_of |-> <<off, chunk_data>>]]

\* mutant of chunk_failed: the status byte is not looked at
chunk_failed_no_status(response) ==
    \/ response = <<>>
    \/ (Len(response) < 5 \/ response[2] # 33 \/ response[3] # 4)

\* _send_firmware_data: the responses that add to failed_chunks
chunk_failed(response) ==
    \/ response = <<>>
    \/ (Len(response) < 5 \/ response[2] # 33 \/ response[3] # 4)
    \/ (Len(response) >= 5 /\ response[5] # 1)

\* total_chunks of _send_firmware_data
total_chunks(size) == (size + LEQI_CHUNK_SIZE - 1) \div LEQI_CHUNK_SIZE

\* _send_firmware_data: one pass of the loop; after the last one the test of
\* failed_chunks.  int((chunk_num / total_chunks) * 90) is the floor for the
\* chunk counts of LeqiFiles.
LeqiSendChunk ==
    /\ pc = "data"
    /\ offset < fw_size
    /\ \E wire \in DataReplies :
       \E response \in {send_and_receive(in_buf, wire).response} :
         LET chunk_end == Min(offset + LEQI_CHUNK_SIZE, fw_size)
             failed == failed_chunks + IF chunk_failed(response) THEN 1 ELSE 0
         IN  /\ tx' = leqi_data_frame(fw, offset, chunk_end)
             /\ tx_tick' = 1 - tx_tick
             /\ rx' = response
             /\ in_buf' = send_and_receive(in_buf, wire).rest
             /\ device_ok' = (device_ok /\ ~chunk_failed(response))
             /\ chunk_num' = chunk_num + 1
             /\ failed_chunks' = failed
             /\ offset' = chunk_end
             /\ progress' = ((chunk_num + 1) * 90) \div total_chunks(fw_size)
             /\ IF chunk_end < fw_size THEN pc' = pc /\ err' = err
                ELSE IF failed > 0 THEN pc' = "failed" /\ err' = "ChunkRejected"
                ELSE pc' = "end" /\ err' = err
    /\ UNCHANGED <<dfuVars, fw, fw_size, attempt, hostVars>>
    /\ UNCHANGED toolVars
    /\ UNCHANGED guiVars

\* the structurally valid End response
end_valid(response) ==
    response # <<>> /\ Len(response) >= 5 /\ response[2] = 33 /\ response[3] = 5

\* mutant of leqi_end_step: the loop stops one attempt early
leqi_end_step_short(att, response) ==
    IF end_valid(response) THEN "done"
    ELSE IF att < END_RETRIES - 1 THEN "retry" ELSE "EndFailed"

\* _send_end_command: what follows attempt att (from 1) and its response
leqi_end_step(att, response) ==
    IF end_valid(response) THEN "done"
    ELSE IF att < END_RETRIES THEN "retry" ELSE "EndFailed"

\* _send_end_command, one attempt; after a valid response run() closes the port
\* and reports 100
LeqiSendEnd ==
    /\ pc = "end"
    /\ \E wire \in EndReplies :
       \E response \in {send_and_receive(in_buf, wire).response} :
         LET what == leqi_end_step(attempt + 1, response)
         IN  /\ tx' = end_frame
             /\ tx_tick' = 1 - tx_tick
             /\ rx' = response
             /\ in_buf' = send_and_receive(in_buf, wire).rest
             /\ device_ok' = (device_ok /\ end_valid(response))
             /\ attempt' = attempt + 1
             /\ CASE what = "done" ->
                       /\ pc' = "done"
                       /\ err' = err
                       /\ serial_conn' = "closed"
                       /\ progress' = 100
                  [] what = "retry" ->
                       UNCHANGED <<pc, err, serial_conn, progress>>
                  [] OTHER ->
                       /\ pc' = "failed"
                       /\ err' = what
                       /\ UNCHANGED <<serial_conn, progress>>
    /\ UNCHANGED <<dfuVars, fw, fw_size, offset, chunk_num, failed_chunks, retries,
                   cancel_requested>>
    /\ UNCHANGED toolVars
    /\ UNCHANGED guiVars

\* a write or read on the port raises SerialException and run() re-raises
LeqiLinkError ==
    /\ pc \in {"start", "data", "end"}
    /\ pc' = "failed"
    /\ err' = "SerialError"
    /\ UNCHANGED <<dfuVars, fw, linkVars, progress, device_ok, leqiVars, hostVars>>
    /\ UNCHANGED <<toolVars, in_buf>>
    /\ UNCHANGED guiVars

NextLeqi ==
    \/ LeqiLoadFile
    \/ LeqiRunEnter
    \/ LeqiSendStart
    \/ LeqiSendChunk
    \/ LeqiSendEnd
    \/ LeqiLinkError

\* load_file and run of the Leqi driver
SpecLeqi == InitLeqi /\ [][NextLeqi]_vars

(***************************************************************************)
(* Bytes that arrive between two frames                                    *)
(***************************************************************************)
\* what may reach the input buffer while no read is under way: a lone header
\* byte, a frame that answers none of the driver's commands, the end of a frame
LateFrames == {<<90>>, <<90, 33, 0, 1, 1, 0, 0>>, <<33, 4, 1>>}

\* the controller sends while the driver is between two _send_and_receive calls
DeviceSendsLate ==
    /\ pc \in {"start", "data", "end"}
    /\ in_buf = <<>>
    /\ in_buf' \in LateFrames
    /\ UNCHANGED <<pc, err, dfuVars, fw, linkVars, progress, device_ok, leqiVars,
                   hostVars, toolVars>>
    /\ UNCHANGED guiVars

NextLink ==
    \/ LeqiLoadFile
    \/ LeqiRunEnter
    \/ LeqiSendStart
    \/ LeqiSendChunk
    \/ LeqiSendEnd
    \/ LeqiLinkError
    \/ DeviceSendsLate

\* a Leqi run with a controller that also sends between the frames
SpecLink == InitLeqi /\ [][NextLink]_vars

(***************************************************************************)
(* The Start frame for images around 64 KiB                                *)
(***************************************************************************)
\* Leqi images without a long AA run, of 0x10000 bytes less or more a few, and
\* one whose long AA run ends at its end, 0xFFFF bytes long
StartFiles ==
    {LeqiHead \o <<Piece(0, 65536 - 210 + d)>> : d \in {-256, -129, -128, -2, -1, 0, 1, 128}}
        \cup {LeqiHead \o <<Piece(0, 64000), Piece(AA, 65535 - 64210)>>}

\* LeqiFlasher.load_file on one of them
LeqiLoadStartFile == LeqiLoadFrom(StartFiles)

NextStart ==
    \/ LeqiLoadStartFile
    \/ LeqiRunEnter
    \/ LeqiSendStart
    \/ DeviceSendsLate

\* load_file and run() up to the answer to the Start frame
SpecStart == InitLeqi /\ [][NextStart]_vars

(***************************************************************************)
(* LeqiFlasher._run_simulation: the frames are built and logged, nothing   *)
(* is written; tx holds the frame built last and tx_tick stays             *)
(***************************************************************************)
\* LeqiFlasher.run with self.simulation set
LeqiRunSimulation ==
    /\ pc = "loaded"
    /\ pc' = "sim_start"
    /\ UNCHANGED <<err, dfuVars, fw, linkVars, progress, device_ok, leqiVars, hostVars,
                   toolVars, in_buf, guiVars>>

\* _run_simulation: the Start frame
sim_start_frame(size) ==
    LET start_packet_ == <<90, 18, 3, 6, 49, 0>> \o struct_pack_H(size).bytes \o <<0, 0>>
    IN  [cmd |-> "start", size_le |-> struct_pack_H(size).bytes,
         crc16 |-> struct_pack_H_be(crc16_standard(start_packet_))]

\* _run_simulation: the End frame
sim_end_frame ==
    [cmd |-> "end", crc16 |-> struct_pack_H_be(crc16_standard(<<90, 18, 5, 0>>))]

\* mutant of sim_data_frame: the offset is that of the chunk after
sim_data_frame_next(fw_, size, n) ==
    LET off == n * LEQI_CHUNK_SIZE
        chunk_end == Min(off + LEQI_CHUNK_SIZE, size)
        chunk_data == leqi_pad(BSlice(FwRuns(FileLen(fw_)), off, chunk_end))
    IN  [cmd |-> "data", offset |-> off, data |-> chunk_data,
         crc16 |-> [crc16_of |-> <<off, chunk_data>>]]

\* _run_simulation: the Data frame of chunk n (n from 1)
sim_data_frame(fw_, size, n) ==
    LET off == (n - 1) * LEQI_CHUNK_SIZE
        chunk_end == Min(off + LEQI_CHUNK_SIZE, size)
        chunk_data == leqi_pad(BSlice(FwRuns(FileLen(fw_)), off, chunk_end))
    IN  [cmd |-> "data", offset |-> off, data |-> chunk_data,
         crc16 |-> [crc16_of |-> <<off, chunk_data>>]]

\* _run_simulation: the progress reported for chunk n, at the first chunk and at
\* every tenth
sim_progress(n, total, before) ==
    IF n % 10 = 0 \/ n = 1 THEN 5 + (n * 85) \div total ELSE before

\* _run_simulation, the start command
SimStart ==
    /\ pc = "sim_start"
    /\ IF struct_pack_H(fw_size).raised
       THEN /\ pc' = "failed"
            /\ err' = "StructError"
            /\ UNCHANGED <<tx, progress>>
       ELSE /\ tx' = sim_start_frame(fw_size)
            /\ progress' = 5
            /\ pc' = IF total_chunks(fw_size) = 0 THEN "sim_end" ELSE "sim_data"
            /\ err' = err
    /\ chunk_num' = 0
    /\ UNCHANGED <<dfuVars, fw, tx_tick, rx, device_ok, fw_size, offset, failed_chunks,
                   attempt, hostVars, toolVars, in_buf, guiVars>>

\* _run_simulation, one pass of the chunk loop
SimChunk ==
    /\ pc = "sim_data"
    /\ chunk_num' = chunk_num + 1
    /\ offset' = chunk_num * LEQI_CHUNK_SIZE
    /\ tx' = sim_data_frame(fw, fw_size, chunk_num + 1)
    /\ progress' = sim_progress(chunk_num + 1, total_chunks(fw_size), progress)
    /\ pc' = IF chunk_num + 1 < total_chunks(fw_size) THEN "sim_data" ELSE "sim_end"
    /\ UNCHANGED <<err, dfuVars, fw, tx_tick, rx, device_ok, fw_size, failed_chunks,
                   attempt, hostVars, toolVars, in_buf, guiVars>>

\* _run_simulation, the end command: progress 95, the End frame, progress 100
SimEnd ==
    /\ pc = "sim_end"
    /\ tx' = sim_end_frame
    /\ progress' = 100
    /\ pc' = "done"
    /\ UNCHANGED <<err, dfuVars, fw, tx_tick, rx, device_ok, leqiVars, hostVars,
                   toolVars, in_buf, guiVars>>

NextSim ==
    \/ NextLeqi
    \/ LeqiRunSimulation
    \/ SimStart
    \/ SimChunk
    \/ SimEnd

\* a Leqi driver run against a controller or in simulation
SpecSim == InitLeqi /\ [][NextSim]_vars

(***************************************************************************)
(* Cancellation                                                            *)
(***************************************************************************)
\* the host asks a running driver to stop; no method of the drivers reads the
\* request
RequestCancel ==
    /\ pc \in {"start", "data", "end"}
    /\ ~cancel_requested
    /\ cancel_requested' = TRUE
    /\ UNCHANGED <<pc, err, dfuVars, fw, linkVars, progress, device_ok, leqiVars,
                   serial_conn, retries>>
    /\ UNCHANGED <<toolVars, in_buf>>
    /\ UNCHANGED guiVars

NextCancel ==
    \/ LeqiLoadFile
    \/ LeqiRunEnter
    \/ LeqiSendStart
    \/ LeqiSendChunk
    \/ LeqiSendEnd
    \/ LeqiLinkError
    \/ RequestCancel

\* a Leqi run during which the host may request cancellation
SpecCancel == InitLeqi /\ [][NextCancel]_vars

(***************************************************************************)
(* Firmware ingestion: utils.process_firmware                              *)
(***************************************************************************)
MODEL_AT == 256
MODEL_END == 271
MODEL_ALT_AT == 1024
MODEL_ALT_END == 1038
TRIM_OVER == 4096
TRIM == 2

\* A byte string given to process_firmware is written as a term: the bytes of
\* pieces ("plain"), the fasttea ciphertext of the bytes of pieces ("tea"), or a
\* ZIP archive of members ("zip"), each member a name and a plain or tea term;
\* cut counts the bytes taken off the end of a ciphertext
Plain(p) == [kind |-> "plain", pieces |-> p, members |-> <<>>, cut |-> 0]
Tea(p) == [kind |-> "tea", pieces |-> p, members |-> <<>>, cut |-> 0]
Zip(ms) == [kind |-> "zip", pieces |-> <<>>, members |-> ms, cut |-> 0]
Member(name, data) == [name |-> name, data |-> data]

RECURSIVE PiecesTake(_, _)
\* the first n bytes of the pieces f
PiecesTake(f, n) ==
    IF f = <<>> \/ n <= 0 THEN <<>>
    ELSE IF Head(f).n >= n THEN <<[Head(f) EXCEPT !.n = n]>>
    ELSE <<Head(f)>> \o PiecesTake(Tail(f), n - Head(f).n)

\* len(data): a ciphertext is as long as its plaintext
TermLen(x) == FileLen(x.pieces) - x.cut

\* data[:-2]
TrimTerm(x) ==
    IF x.kind = "plain"
    THEN [x EXCEPT !.pieces = PiecesTake(x.pieces, FileLen(x.pieces) - TRIM)]
    ELSE [x EXCEPT !.cut = x.cut + TRIM]

\* utils._decode_model, as the truth value process_firmware takes of it: the model
\* id at 0x100 if those bytes are ASCII, else the one at 0x400 if those are; an
\* empty id counts as none. The id regions of a ciphertext are not ASCII.
decode_model(x) ==
    IF x.kind # "plain" THEN FALSE
    ELSE LET data == FileBytes(x.pieces)
             id1 == PySlice(data, MODEL_AT, MODEL_END)
             id2 == PySlice(data, MODEL_ALT_AT, MODEL_ALT_END)
         IN  IF Decodes(id1) THEN id1 # <<>>
             ELSE Decodes(id2) /\ id2 # <<>>

\* fasttea.decrypt: the plaintext of a whole ciphertext; on any other bytes it
\* raises or returns bytes that carry no model id
fasttea_decrypt(x) ==
    IF x.kind = "tea" /\ x.cut = 0
    THEN [raised |-> FALSE, data |-> Plain(x.pieces)]
    ELSE [raised |-> TRUE, data |-> x]

\* the member name process_firmware extracts: the first that starts with
\* EC_ESC_Driver or ends with .enc, else the first of the archive
IsEscName(name) == name \in {"EC_ESC_Driver.bin", "fw.enc"}

RECURSIVE FirstEsc(_)
FirstEsc(ms) ==
    IF ms = <<>> THEN <<>>
    ELSE IF IsEscName(Head(ms).name) THEN <<Head(ms)>> ELSE FirstEsc(Tail(ms))

esc_file(ms) == IF FirstEsc(ms) = <<>> THEN ms[1] ELSE FirstEsc(ms)[1]

\* process_firmware, the last step: bytes longer than 4096 lose their last two
trim_trailer(x, extracted) == IF TermLen(x) > TRIM_OVER THEN TrimTerm(x) ELSE x

\* utils.process_firmware
process_firmware(firmware_data) ==
    IF firmware_data.kind = "zip" /\ firmware_data.members = <<>>
    THEN [raised |-> "ValueError", fw |-> firmware_data]
    ELSE LET extracted == firmware_data.kind = "zip"
             unzipped == IF extracted THEN esc_file(firmware_data.members).data
                         ELSE firmware_data
             decrypted == fasttea_decrypt(unzipped)
             processed_fw ==
                 IF ~decode_model(unzipped) /\ ~decrypted.raised
                        /\ decode_model(decrypted.data)
                 THEN decrypted.data ELSE unzipped
         IN  [raised |-> "none", fw |-> trim_trailer(processed_fw, extracted)]

\* f.read() of the file at p, as the term process_firmware is given
raw_data(p) == IF p.members = <<>> THEN Plain(p.content) ELSE Zip(p.members)

\* utils.load_and_process_firmware on a path
load_and_process_firmware(p) ==
    IF ~p.readable THEN [raised |-> "FileNotFoundError", fw |-> Plain(<<>>)]
    ELSE process_firmware(raw_data(p))

\* a function is about to be applied to one of inputs
InitApply(inputs) ==
    /\ InitFields
    /\ path = NoPath
    /\ input \in inputs
    /\ serial_conn = "none"
    /\ sign_rand_params = SIGN_RAND_PARAMS

\* arguments for find_pattern_offsets: patterns of up to MaxPatLen bytes and
\* buffers of up to MaxFileLen bytes over two byte values, and every start offset
\* from 0 to one past the longest buffer
FindInputs ==
    {[pattern |-> pat, data |-> data, start |-> start] :
        pat \in UNION {[1..n -> {1, 2}] : n \in 0..MaxPatLen},
        data \in UNION {[1..n -> {1, 2}] : n \in 0..MaxFileLen},
        start \in 0..(MaxFileLen + 1)}

\* find_pattern_offsets applied to the input
FindPatternOffsets ==
    /\ output = <<>>
    /\ output' = <<find_pattern_offsets(input.pattern, input.data, input.start)>>
    /\ UNCHANGED <<pc, err, dfuVars, fw, linkVars, progress, device_ok, leqiVars,
                   hostVars, path, fw_type, flasher, input, in_buf>>
    /\ UNCHANGED guiVars

InitFind == InitApply(FindInputs)

\* find_pattern_offsets alone, over the arguments
SpecFind == InitFind /\ [][FindPatternOffsets]_vars

\* byte strings for process_firmware: images around 4096 bytes with a model id,
\* images and a short file without one, ciphertexts of images, and archives of
\* up to two members
PlainInputs ==
    {Plain(<<Fill(TRIM_OVER + d)>>) : d \in -2..6}
        \cup {Plain(<<Piece(200, n)>>) : n \in {100, TRIM_OVER, TRIM_OVER + 4}}

TeaInputs == {Tea(<<Fill(TRIM_OVER + d)>>) : d \in {0, 4, 6}}

MemberInputs ==
    {Member(name, data) :
        name \in {"readme.txt", "EC_ESC_Driver.bin", "fw.enc"},
        data \in {Plain(<<Fill(TRIM_OVER + 4)>>), Tea(<<Fill(TRIM_OVER + 2)>>),
                  Plain(<<Piece(200, 100)>>)}}

ProcessInputs ==
    PlainInputs \cup TeaInputs
        \cup {Zip(ms) : ms \in UNION {[1..n -> MemberInputs] : n \in 0..2}}

\* process_firmware applied to the input, then to what it returned
ProcessFirmware ==
    /\ pc = "new"
    /\ Len(output) < 2
    /\ LET r == process_firmware(IF output = <<>> THEN input ELSE output[Len(output)])
       IN  IF r.raised # "none"
           THEN pc' = "failed" /\ err' = r.raised /\ output' = output
           ELSE pc' = pc /\ err' = err /\ output' = Append(output, r.fw)
    /\ UNCHANGED <<dfuVars, fw, linkVars, progress, device_ok, leqiVars, hostVars,
                   path, fw_type, flasher, input, in_buf>>
    /\ UNCHANGED guiVars

InitProcess == InitApply(ProcessInputs)

\* process_firmware alone, over the byte strings
SpecProcess == InitProcess /\ [][ProcessFirmware]_vars

(***************************************************************************)
(* Firmware classification and the dispatcher                              *)
(***************************************************************************)
MIN_FW_LEN == 4096
SIG_AT == 2048
SIG_END == 2056
PATTERN_PAST == 4096
LEQI_SCAN_END == 1024

\* b'DEPRD5C\x00'
DEPRD5C == <<68, 69, 80, 82, 68, 53, 67, 0>>

\* mutant of detect_firmware_type: the Leqi test comes before the Brightway tests
detect_firmware_type_leqi_first(firmware_data) ==
    IF Len(firmware_data) < MIN_FW_LEN THEN "UNKNOWN"
    ELSE LET window == PySlice(firmware_data, SCAN_FROM, LEQI_SCAN_END)
             offsets == find_pattern_offsets(<<99, 124>>, firmware_data, 0)
         IN  IF CountAAA2(window) > MIN_AA_A2 /\ CountAA(window) > MIN_AA
             THEN "LEQI"
             ELSE IF Len(firmware_data) > SIG_END
                        /\ PySlice(firmware_data, SIG_AT, SIG_END) = DEPRD5C
             THEN "BRIGHTWAY"
             ELSE IF Len(offsets) = 1 /\ offsets[1] > PATTERN_PAST
             THEN "BRIGHTWAY"
             ELSE "UNKNOWN"

\* firmware_detector.detect_firmware_type
detect_firmware_type(firmware_data) ==
    IF Len(firmware_data) < MIN_FW_LEN THEN "UNKNOWN"
    ELSE IF Len(firmware_data) > SIG_END
               /\ PySlice(firmware_data, SIG_AT, SIG_END) = DEPRD5C
    THEN "BRIGHTWAY"
    ELSE LET offsets == find_pattern_offsets(<<99, 124>>, firmware_data, 0)
         IN  IF Len(offsets) = 1 /\ offsets[1] > PATTERN_PAST THEN "BRIGHTWAY"
             ELSE LET window == PySlice(firmware_data, SCAN_FROM, LEQI_SCAN_END)
                  IN  IF CountAAA2(window) > MIN_AA_A2 /\ CountAA(window) > MIN_AA
                      THEN "LEQI" ELSE "UNKNOWN"

\* firmware_detector.detect_firmware_file: the file as it is on disk is classified;
\* any exception gives UNKNOWN
detect_firmware_file(p) ==
    IF ~p.readable THEN "UNKNOWN" ELSE detect_firmware_type(FileBytes(p.content))

\* firmware_detector.create_flasher_for_firmware; UnsupportedFirmware stands for
\* ValueError("Unknown firmware type for file: ...")
detector_create_flasher(p) ==
    LET t == detect_firmware_file(p)
    IN  IF t = "BRIGHTWAY" THEN [raised |-> "none", fw_type |-> t, flasher |-> "BrightwayFlasher"]
        ELSE IF t = "LEQI" THEN [raised |-> "none", fw_type |-> t, flasher |-> "LeqiFlasher"]
        ELSE [raised |-> "UnsupportedFirmware", fw_type |-> t, flasher |-> "none"]

\* BrightwayFlasher.detect_firmware_type: the DFU rule of the classifier
brightway_detect_firmware_type(firmware_data) ==
    IF Len(firmware_data) < MIN_FW_LEN THEN "UNKNOWN"
    ELSE IF Len(firmware_data) > SIG_END
               /\ PySlice(firmware_data, SIG_AT, SIG_END) = DEPRD5C
    THEN "BRIGHTWAY"
    ELSE LET offsets == find_pattern_offsets(<<99, 124>>, firmware_data, 0)
         IN  IF Len(offsets) = 1 /\ offsets[1] > PATTERN_PAST THEN "BRIGHTWAY"
             ELSE "UNKNOWN"

\* base_flasher._get_flasher_classes, each class with its detect_firmware_type
\* applied to data
flasher_classes(data) ==
    <<[class |-> "BrightwayFlasher", detected |-> brightway_detect_firmware_type(data)],
      [class |-> "LeqiFlasher", detected |-> leqi_detect_firmware_type(data)]>>

RECURSIVE FirstDetected(_)
\* base_flasher.detect_firmware_type: what the first class that knows the data
\* says it is
FirstDetected(classes) ==
    IF classes = <<>> THEN "UNKNOWN"
    ELSE IF Head(classes).detected # "UNKNOWN" THEN Head(classes).detected
    ELSE FirstDetected(Tail(classes))

\* base_flasher.detect_firmware_file: the ingested file is classified; any
\* exception gives UNKNOWN
base_detect_firmware_file(p) ==
    LET loaded == load_and_process_firmware(p)
    IN  IF loaded.raised # "none" THEN "UNKNOWN"
        ELSE FirstDetected(flasher_classes(FileBytes(loaded.fw.pieces)))

RECURSIVE FirstMatching(_, _)
\* the loop of base_flasher.create_flasher_for_firmware: the first class whose
\* detector returns fw_type
FirstMatching(classes, t) ==
    IF classes = <<>> THEN "none"
    ELSE IF Head(classes).detected = t THEN Head(classes).class
    ELSE FirstMatching(Tail(classes), t)

\* base_flasher.create_flasher_for_firmware
create_flasher_for_firmware(p) ==
    LET t == base_detect_firmware_file(p)
        loaded == load_and_process_firmware(p)
    IN  IF loaded.raised # "none"
        THEN [raised |-> loaded.raised, fw_type |-> t, flasher |-> "none"]
        ELSE LET class == FirstMatching(flasher_classes(FileBytes(loaded.fw.pieces)), t)
             IN  IF class = "none"
                 THEN [raised |-> "UnsupportedFirmware", fw_type |-> t, flasher |-> "none"]
                 ELSE [raised |-> "none", fw_type |-> t, flasher |-> class]

\* the window of a file in which Leqi images are recognised: eleven AA A2 pairs and
\* sixty AA ("leqi"), ten pairs ("pairs10"), fifty AA in all ("aa50"), or neither
LeqiWindow(w) ==
    LET pairs == IF w = "pairs10" THEN 10 ELSE IF w = "none" THEN 0 ELSE 11
        run == IF w = "aa50" THEN 39 ELSE IF w = "none" THEN 0 ELSE 60
    IN  [i \in 1..(2 * pairs) |-> Piece(IF i % 2 = 1 THEN AA ELSE 162, 1)]
            \o <<Piece(AA, run), Piece(0, 896 - 2 * pairs - run)>>

\* the eight bytes at 0x800: the signature, the signature with a wrong last byte,
\* or filler
SigBytes(s) ==
    IF s = "none" THEN <<Fill(8)>>
    ELSE [i \in 1..7 |-> Piece(DEPRD5C[i], 1)] \o <<Piece(IF s = "sig" THEN 0 ELSE 1, 1)>>

\* 63 7C 01 02
Patterns == <<Piece(99, 1), Piece(124, 1), Piece(1, 1), Piece(2, 1)>>

\* an image for the classifier: 63 7C 01 02 at offset 16 when low; the Leqi
\* window w; the signature bytes s; past 0x1000 ten bytes that hold 63 7C 01 02
\* at 0x1000 ("at") or at 0x1001 ("past"), none ("plain"), or short by short bytes
\* of 0x1000 ("short")
Image(low, w, s, tail, short) ==
    <<Fill(16)>> \o (IF low THEN Patterns ELSE <<Fill(4)>>) \o <<Fill(108)>>
        \o LeqiWindow(w) \o <<Fill(1024)>> \o SigBytes(s)
        \o (IF tail = "short" THEN <<Fill(2040 - short)>>
            ELSE <<Fill(2040)>> \o
                 (IF tail = "at" THEN Patterns \o <<Fill(6)>>
                  ELSE IF tail = "past" THEN <<Fill(1)>> \o Patterns \o <<Fill(5)>>
                  ELSE <<Fill(10)>>))

ClassifyImages ==
    {Image(low, w, s, tail, 0) :
        low \in BOOLEAN, w \in {"none", "leqi", "pairs10", "aa50"},
        s \in {"none", "sig", "near"}, tail \in {"plain", "at", "past", "short"}}
    \cup {Image(low, w, s, "short", 1) :
            low \in BOOLEAN, w \in {"none", "leqi"}, s \in {"none", "sig"}}

\* a deflated archive that holds one Leqi image of 1024 or 1100 bytes (such an
\* archive is some 130 bytes long): raw bytes shorter than 0x400, a length below
\* which neither classifier nor load_file looks at a byte
Archives ==
    {[readable |-> TRUE, content |-> <<Fill(MIN_LEQI_LEN \div 8)>>,
      members |-> <<Member(name, Plain(LeqiHead \o <<Piece(0, n)>>))>>] :
        name \in {"fw.enc", "leqi.bin"}, n \in {814, 890}}

\* the files the host may be given: the images, the archives, and a path that
\* cannot be read
Paths ==
    {[readable |-> TRUE, content |-> f, members |-> <<>>] : f \in ClassifyImages}
        \cup Archives \cup {NoPath}

\* what a dispatcher leaves behind: the driver it returned or the exception it
\* raised
Dispatched(r) ==
    /\ fw_type' = r.fw_type
    /\ flasher' = r.flasher
    /\ pc' = IF r.raised # "none" THEN "failed" ELSE pc
    /\ err' = IF r.raised # "none" THEN r.raised ELSE err
    /\ UNCHANGED <<dfuVars, fw, linkVars, progress, device_ok, leqiVars, hostVars,
                   path, input, output, in_buf>>
    /\ UNCHANGED guiVars

\* FirmwareUpdateThread.run, first step: base_flasher.create_flasher_for_firmware
CreateFlasher ==
    /\ pc = "new" /\ fw_type = "none"
    /\ Dispatched(create_flasher_for_firmware(path))

\* __main__, first step: firmware_detector.create_flasher_for_firmware
DetectorCreateFlasher ==
    /\ pc = "new" /\ fw_type = "none"
    /\ Dispatched(detector_create_flasher(path))

\* updater.load_file(firmware_file) on the Brightway driver (flash_uart.DFU)
BrightwayLoadFile ==
    /\ flasher = "BrightwayFlasher"
    /\ LoadFrom({path.content})

\* updater.load_file(firmware_file) on the Leqi driver
LeqiFlasherLoadFile ==
    /\ flasher = "LeqiFlasher"
    /\ LeqiLoadFrom({path.content})

NextDispatch ==
    \/ CreateFlasher
    \/ DetectorCreateFlasher
    \/ BrightwayLoadFile
    \/ LeqiFlasherLoadFile

\* the steps of the GUI worker up to load_file
NextWorker ==
    \/ CreateFlasher
    \/ BrightwayLoadFile
    \/ LeqiFlasherLoadFile

\* the host has been given a file; no driver exists yet
InitDispatch ==
    /\ InitFields
    /\ path \in Paths
    /\ input = <<>>
    /\ serial_conn = "none"
    /\ sign_rand_params = SIGN_RAND_PARAMS

\* a file is dispatched to a driver and the driver loads it
SpecDispatch == InitDispatch /\ [][NextDispatch]_vars

\* the same with the dispatcher of base_flasher only, as the GUI worker does it
SpecWorker == InitDispatch /\ [][NextWorker]_vars

\* the classifier applied to an image
Classify ==
    /\ output = <<>>
    /\ output' = <<detect_firmware_type(FileBytes(input))>>
    /\ UNCHANGED <<pc, err, dfuVars, fw, linkVars, progress, device_ok, leqiVars,
                   hostVars, path, fw_type, flasher, input, in_buf>>
    /\ UNCHANGED guiVars

InitClassify == InitApply(ClassifyImages)

\* the classifier alone, over the images
SpecClassify == InitClassify /\ [][Classify]_vars

(***************************************************************************)
(* Properties                                                              *)
(***************************************************************************)
\* a send() happens in this step
Writes == tx_tick' # tx_tick

\* the key the device has to return for ble_rand
BleKeyExpected == sign_rand(uid, ble_rand, fw, fw_offsets[1], fw_offsets[2])

\* s right-padded with 0xFF to a multiple of PACKET_SIZE
PadToPacket(s) == BCat(s, PadRuns((PACKET_SIZE - (BLen(s) % PACKET_SIZE)) % PACKET_SIZE))

\* the transitions of the state table
Edges ==
    {<<"UID", "VER_INIT">>, <<"VER_INIT", "INIT">>, <<"INIT", "BLE_RAND">>,
     <<"BLE_RAND", "MCU_RAND">>, <<"MCU_RAND", "MCU_KEY">>, <<"MCU_KEY", "NVM_WRITE">>,
     <<"NVM_WRITE", "SEND_FW">>, <<"SEND_FW", "WR_INFO">>, <<"WR_INFO", "NVM_WRITE">>,
     <<"WR_INFO", "DFU_VERIFY">>, <<"DFU_VERIFY", "DFU_ACTIVE">>,
     <<"DFU_ACTIVE", "VER_DONE">>, <<"VER_DONE", "DONE">>}

\* the reply the state table expects in state st (SEND_FW moves on whatever the
\* trailer is answered with)
ExpectedReply(st, r) ==
    CASE st = "UID" -> Len(r) = 5 + UID_LEN /\ StartsWith(r, <<BYTE_START, CMD_UID_1, UID_LEN>>)
                       /\ r[Len(r)] = BYTE_END
      [] st \in {"VER_INIT", "VER_DONE"} -> HasByte(B_cr, r)
      [] st = "INIT" -> StartsWith(r, B_ok)
      [] st = "BLE_RAND" -> StartsWith(r.text, B_ok) /\ r.body = BleKeyExpected
      [] st = "MCU_RAND" -> StartsWith(r.text, B_ok) /\ Len(r.body) = 16
      [] st = "MCU_KEY" -> r = B_ok_cr
      [] st \in {"NVM_WRITE", "WR_INFO", "DFU_VERIFY", "DFU_ACTIVE"} -> Contains(B_k_cr, r)
      [] OTHER -> TRUE

C5_BoundedRetries == attempts <= MAX_REPEATS

C8_HappyPath ==
    [][device_ok' =>
         /\ pc' = "failed" => err' = "InvalidFirmware"
         /\ progress' >= progress
         /\ pc' = "done" => progress' = 100]_vars

Occurrences(pat, data, from) ==
    {o \in from..(Len(data) - 2) : data[o + 1] = pat[1] /\ data[o + 2] = pat[2]}

\* C13: load_file succeeds if and only if 63 7C occurs exactly once in the file
\* (at O0) and 01 02 exactly once at or after O0 (at P); it then stores
\* fw_offsets = (O0, P - 1) and total_packets = ceil(len / 0x800); in every other
\* case it fails with InvalidFirmware.
C13_LoadFile ==
    pc # "new" =>
        LET data == FileBytes(fw)
            O0s == Occurrences(<<99, 124>>, data, 0)
            Ps == IF Cardinality(O0s) = 1
                  THEN Occurrences(<<1, 2>>, data, CHOOSE o \in O0s : TRUE)
                  ELSE {}
        IN  IF Cardinality(O0s) = 1 /\ Cardinality(Ps) = 1
            THEN /\ pc = "loaded"
                 /\ fw_offsets = <<CHOOSE o \in O0s : TRUE, (CHOOSE q \in Ps : TRUE) - 1>>
                 /\ (total_packets - 1) * PACKET_SIZE < Len(data)
                 /\ Len(data) <= total_packets * PACKET_SIZE
            ELSE pc = "failed" /\ err = "InvalidFirmware"

\* C13 witness: the file 01 02 63 7C 01 02, whose first 01 02 lies before O0 = 2,
\* was accepted with fw_offsets = (2, 3).
C13_Witness ==
    /\ pc = "loaded"
    /\ FileBytes(fw) = <<1, 2, 99, 124, 1, 2>>
    /\ fw_offsets = <<2, 3>>
    /\ total_packets = 1

\* the pieces a..b of f are a maximal run of 0xAA bytes
IsAARun(f, a, b) ==
    /\ \A k \in a..b : f[k].b = AA
    /\ a > 1 => f[a - 1].b # AA
    /\ b < Len(f) => f[b + 1].b # AA

\* the maximal runs of 0xAA bytes in the pieces f, as <<start, end>> offsets
AARuns(f) ==
    {<<FileLen(SubSeq(f, 1, x[1] - 1)), FileLen(SubSeq(f, 1, x[2]))>> :
        x \in {y \in (1..Len(f)) \X (1..Len(f)) : y[1] <= y[2] /\ IsAARun(f, y[1], y[2])}}

IsReply(r, cmd) == Len(r) >= 5 /\ r[1] = 90 /\ r[2] = 33 /\ r[3] = cmd

\* ceil(fw_size / 128)
DataFrames == CHOOSE k \in 0..fw_size : (k - 1) * 128 < fw_size /\ fw_size <= k * 128

\* C14: a Leqi run writes one Start frame, as the first frame and never again; a
\* Data frame only after a structurally valid Start response or another Data frame,
\* and a Start response that is not valid fails the run with StartRejected; an End
\* frame only after all Data frames; progress 100 only with a valid End response;
\* a failed run writes nothing.
C14_FrameOrder ==
    [][/\ (Writes /\ tx'.cmd = "start") => tx.cmd = "none"
       /\ (Writes /\ tx'.cmd = "data") =>
              \/ (tx.cmd = "start" /\ IsReply(rx, 3))
              \/ tx.cmd = "data"
       /\ (Writes /\ tx'.cmd = "start" /\ ~IsReply(rx', 3)) =>
              (pc' = "failed" /\ err' = "StartRejected")
       /\ (Writes /\ tx'.cmd = "end") =>
              (tx.cmd \in {"data", "end"} /\ chunk_num = DataFrames)
       /\ (progress' = 100 /\ progress # 100) =>
              (Writes /\ tx'.cmd = "end" /\ IsReply(rx', 5))
       /\ pc = "failed" => ~Writes]_vars

\* C14 witness: a run of nine Data frames completed and reported 100.
C14_Witness ==
    /\ pc = "done"
    /\ progress = 100
    /\ chunk_num = 9
    /\ tx.cmd = "end"

\* s right-padded with 0xFF to 128 bytes
PadToChunk(s) == BCat(s, PadRuns(128 - BLen(s)))

\* C15: the k-th Data frame (k from 0) carries offset k * 128 and 128 data bytes,
\* FW[k*128 : min(k*128 + 128, fw_size)] right-padded with 0xFF; there is a k-th
\* frame only for k < ceil(fw_size / 128), and the data phase ends only after
\* ceil(fw_size / 128) frames.
C15_DataFrames ==
    [][/\ (Writes /\ tx'.cmd = "data") =>
              /\ chunk_num < DataFrames
              /\ chunk_num' = chunk_num + 1
              /\ tx'.offset = chunk_num * 128
              /\ BLen(tx'.data) = 128
              /\ tx'.data = PadToChunk(BSlice(FwRuns(FileLen(fw)), chunk_num * 128,
                                               Min(chunk_num * 128 + 128, fw_size)))
       /\ (pc = "data" /\ pc' # "data" /\ err' # "SerialError") => chunk_num' = DataFrames
       /\ ~(Writes /\ tx'.cmd = "data") => chunk_num' = chunk_num]_vars

\* C15 witness: the ninth frame of the 1100-byte image is on the link, with the 76
\* bytes from offset 1024 and 52 padding bytes.
C15_Witness ==
    /\ tx.cmd = "data"
    /\ tx.offset = 1024
    /\ tx.data = <<[src |-> "fw", lo |-> 1024, hi |-> 1100],
                   [src |-> "pad", lo |-> 0, hi |-> 52]>>

\* the responses to a Data frame that count as failed
BadDataReply(r) == r = <<>> \/ ~IsReply(r, 4) \/ r[5] # 1

\* C16: failed_chunks counts the Data frames whose response was absent, malformed
\* or had a status other than 01; a failed chunk does not end the data phase
\* before the last chunk; with failed_chunks > 0 after the last chunk the run
\* fails with ChunkRejected, and an End frame is written only with
\* failed_chunks = 0.
C16_FailedChunks ==
    [][/\ (Writes /\ tx'.cmd = "data") =>
              /\ failed_chunks' = failed_chunks + IF BadDataReply(rx') THEN 1 ELSE 0
              /\ offset' > offset
              /\ offset' < fw_size => pc' = "data"
              /\ (offset' >= fw_size /\ failed_chunks' > 0) =>
                     (pc' = "failed" /\ err' = "ChunkRejected")
       /\ (Writes /\ tx'.cmd = "end") => failed_chunks = 0
       /\ ~(Writes /\ tx'.cmd = "data") => failed_chunks' = failed_chunks]_vars

\* C16 witness: one chunk of eight was rejected with status 00, the chunks after
\* it were still written and acknowledged, and the run failed with ChunkRejected.
C16_Witness ==
    /\ err = "ChunkRejected"
    /\ failed_chunks = 1
    /\ chunk_num = 8
    /\ rx = <<90, 33, 4, 1, 1, 237, 182>>

\* C17: the End frame is written at most 10 times; a structurally valid response
\* ends the run successfully at once, any other response is followed by another
\* End frame up to the tenth, after which the run fails with EndFailed.
C17_EndRetries ==
    [][/\ (Writes /\ tx'.cmd = "end") =>
              /\ attempt < 10
              /\ attempt' = attempt + 1
              /\ IsReply(rx', 5) => pc' = "done"
              /\ (~IsReply(rx', 5) /\ attempt' < 10) => pc' = "end"
              /\ (~IsReply(rx', 5) /\ attempt' = 10) => (pc' = "failed" /\ err' = "EndFailed")
       /\ ~(Writes /\ tx'.cmd = "end") => attempt' = attempt
       /\ pc \in {"done", "failed"} => ~Writes]_vars

\* C17 witness: nine End frames went unanswered, the tenth was acknowledged and
\* the run succeeded.
C17_Witness ==
    /\ pc = "done"
    /\ attempt = 10
    /\ rx = <<90, 33, 5, 1, 1, 85, 167>>

\* C19: when run() has ended, normally or with an error, the port it used is
\* not open any more.
C19_PortReleased ==
    (pc \in {"done", "failed"} /\ err \notin {"NotLeqi", "InvalidFirmware"}) =>
        serial_conn # "open"

\* C20: once the host has requested cancellation, the driver writes nothing more
\* to the link.
C20_CancelStopsWrites ==
    [][cancel_requested => ~Writes]_vars

\* data carries the Brightway signature at 0x800, or 63 7C exactly once and that
\* past 0x1000
MeetsDfu(data) ==
    \/ Len(data) >= SIG_END /\ \A j \in 1..8 : data[SIG_AT + j] = DEPRD5C[j]
    \/ /\ Cardinality(Occurrences(<<99, 124>>, data, 0)) = 1
       /\ \A o \in Occurrences(<<99, 124>>, data, 0) : o > PATTERN_PAST

\* in data[0x80:0x400] AA A2 occurs more than 10 times and AA more than 50 times
MeetsLeqi(data) ==
    /\ Cardinality({o \in (SCAN_FROM + 1)..(Min(Len(data), LEQI_SCAN_END) - 1) :
                        data[o] = AA /\ data[o + 1] = 162}) > MIN_AA_A2
    /\ Cardinality({o \in (SCAN_FROM + 1)..Min(Len(data), LEQI_SCAN_END) :
                        data[o] = AA}) > MIN_AA

\* C22: the classifier returns UNKNOWN for every image shorter than 0x1000; else
\* BRIGHTWAY (DFU) if the image has the DEPRD5C signature at 0x800 or 63 7C exactly
\* once past 0x1000; else LEQI if the window 0x80..0x400 holds more than 10 AA A2
\* and more than 50 AA; else UNKNOWN. An image meeting both rules is BRIGHTWAY.
C22_Classification ==
    output # <<>> =>
        LET data == FileBytes(input)
        IN  output[1] =
                IF Len(data) < MIN_FW_LEN THEN "UNKNOWN"
                ELSE IF MeetsDfu(data) THEN "BRIGHTWAY"
                ELSE IF MeetsLeqi(data) THEN "LEQI"
                ELSE "UNKNOWN"

\* C22 witness: an image that meets the Leqi rule and the 63 7C rule was classified
\* BRIGHTWAY
C22_Witness ==
    /\ output = <<"BRIGHTWAY">>
    /\ MeetsLeqi(FileBytes(input))
    /\ Cardinality(Occurrences(<<99, 124>>, FileBytes(input), 0)) = 1

\* C21: after the dispatcher ran, a Brightway (DFU) driver was constructed exactly
\* when the file was classified BRIGHTWAY and a Leqi driver exactly when it was
\* classified LEQI; for a file classified UNKNOWN, an unreadable one included,
\* UnsupportedFirmware was raised and no driver constructed
C21_Dispatch ==
    fw_type # "none" =>
        /\ (flasher = "BrightwayFlasher") <=> (fw_type = "BRIGHTWAY")
        /\ (flasher = "LeqiFlasher") <=> (fw_type = "LEQI")
        /\ fw_type = "UNKNOWN" => (flasher = "none" /\ err = "UnsupportedFirmware")

\* C23: the bytes a driver holds after load_file are the ingested image of the
\* file, the one the dispatcher classified
C23_HoldsIngested ==
    (pc = "loaded" /\ flasher # "none") =>
        Plain(fw) = load_and_process_firmware(path).fw

\* C24: ingestion is idempotent: process_firmware applied to what process_firmware
\* returned returns the same bytes
C24_Idempotent == Len(output) = 2 => output[2] = output[1]

\* C25: find_pattern_offsets returns, in strictly increasing order, exactly the
\* offsets o >= start at which the pattern occurs in the buffer, overlapping
\* occurrences included; for an empty pattern or an empty buffer it returns the
\* empty list
C25_FindPatternOffsets ==
    output # <<>> =>
        LET offsets == output[1]
            pat == input.pattern
            data == input.data
        IN  /\ \A i \in 1..(Len(offsets) - 1) : offsets[i] < offsets[i + 1]
            /\ {offsets[i] : i \in 1..Len(offsets)}
                   = {o \in input.start..Len(data) :
                        /\ pat # <<>>
                        /\ o + Len(pat) <= Len(data)
                        /\ \A j \in 1..Len(pat) : data[o + j] = pat[j]}
            /\ (pat = <<>> \/ data = <<>>) => offsets = <<>>

\* C25 witness: from a start offset past 0, two occurrences that overlap were both
\* returned
C25_Witness ==
    /\ output # <<>>
    /\ input.start > 0
    /\ \E i \in 1..(Len(output[1]) - 1) :
          output[1][i + 1] - output[1][i] < Len(input.pattern)

\* what the controller may send in time in answer to the frame cmd
RepliesTo(cmd) ==
    IF cmd = "start" THEN StartReplies
    ELSE IF cmd = "data" THEN DataReplies
    ELSE EndReplies

ChunkWriteInOrder ==
    (Writes /\ tx'.cmd = "chunk") =>
        /\ tx'.head[2] \in 1..CHUNKS_PER_PACKET
        /\ repeat + 1 <= MAX_REPEATS
        /\ IF tx.cmd # "chunk" THEN tx'.head[2] = 1 /\ repeat = 0
           ELSE IF rx = <<ACK>> THEN tx'.head[2] = tx.head[2] + 1 /\ repeat = 0
           ELSE tx' = tx /\ repeat > 0

\* the frame written last is chunk 16 and it was answered 0x06
Chunk16Acked ==
    tx.cmd = "chunk" /\ tx.head[2] = CHUNKS_PER_PACKET /\ rx = <<ACK>>

PaddedWindow(loc) ==
    LET window == BSlice(FwRuns(FileLen(fw)), loc, loc + PACKET_SIZE)
    IN  BCat(window, PadRuns(PACKET_SIZE - BLen(window)))

\* an nvm_write is written in this step: it announces n_packets_sent * 0x800, the
\* same offset as the nvm_write before it if that one is repeated, 0 for the first
\* packet; and n_packets_sent grows by one with every trailer and not otherwise
NvmWriteOffsets ==
    /\ (Writes /\ tx'.cmd = "nvm_write") =>
           /\ tx'.loc = n_packets_sent * PACKET_SIZE
           /\ tx.cmd = "nvm_write" => tx'.loc = tx.loc
           /\ tx.cmd = "mcu_key" => tx'.loc = 0
    /\ n_packets_sent' =
           IF Writes /\ tx'.cmd = "eot" THEN n_packets_sent + 1 ELSE n_packets_sent

C29_UidLength == state # "UID" => Len(uid) = UID_LEN

\* the replies C30 lists: empty, without 0x64 or 0x9B, 0x9B before or directly
\* after 0x64, byte 1 not 0x2A or byte 2 not 0x10
NotUidFrame(reply) ==
    \/ reply = <<>>
    \/ ~HasByte(BYTE_START, reply)
    \/ ~HasByte(BYTE_END, reply)
    \/ IndexOf(BYTE_END, reply) <= IndexOf(BYTE_START, reply) + 1
    \/ Len(reply) < 3
    \/ reply[2] # CMD_UID_1
    \/ reply[3] # UID_LEN

\* C30: for every reply to the UID request that is not a valid UID frame get_uid
\* raises nothing, leaves the state at UID and stores no UID
C30_BadUidReply ==
    [][(Writes /\ tx'.cmd = "get_uid" /\ NotUidFrame(rx')) =>
          /\ err' = err
          /\ state' = "UID"
          /\ uid' = uid]_vars

(***************************************************************************)
(* C31: the trailer of SEND_FW                                             *)
(***************************************************************************)
\* the step writes the last chunk frame of a packet and the device acknowledges it
Chunk16Answered ==
    /\ state = "SEND_FW"
    /\ fw_pc = "chunk"
    /\ chunk_n = CHUNKS_PER_PACKET - 1
    /\ tx_tick' # tx_tick
    /\ rx' = <<ACK>>

\* the step is the one that follows the chunk loop of send_fw_packet
TrailerStep == state = "SEND_FW" /\ fw_pc = "trailer" /\ tx_tick' # tx_tick

\* what the trailer step does, whatever was read for it
TrailerEffect ==
    /\ tx' = [cmd |-> "eot"]
    /\ n_packets_sent' = n_packets_sent + 1
    /\ data_sent' = BCat(data_sent, packet)
    /\ packet # <<>> => BLen(packet) = PACKET_SIZE
    /\ state' = "WR_INFO"
    /\ pc' = "run"

C31_TrailerPart == [][TrailerStep => TrailerEffect]_vars

(***************************************************************************)
(* C32: the DFU chunk frame                                                *)
(***************************************************************************)
\* the frame f is the frame of chunk n of the padded packet p
IsChunkFrame(f, n, p) ==
    /\ f.head = <<1, n, 255 - n>>
    /\ f.data = BSlice(p, (n - 1) * 128, n * 128)
    /\ BLen(f.data) = 128
    /\ f.crc16 = calculate_crc16(f.data)
    /\ chunk_frame_len(f) = 133
    /\ f.head[2] + f.head[3] = 255
    /\ n = 16 => (f.head[2] = 16 /\ f.head[3] = 239)

StartUpdate ==
    /\ start_button
    /\ update_thread = "none"
    /\ update_thread' = "started"
    /\ start_button' = FALSE
    /\ UNCHANGED <<pc, err, dfuVars, fw, linkVars, progress, device_ok, leqiVars,
                   hostVars, toolVars, in_buf>>

\* FirmwareUpdateThread.run: the worker loads the file and runs the driver
WorkerStep == update_thread = "started" /\ Next

\* FirmwareUpdateGUI.update_progress: the slot of progress_signal, run by the GUI
\* thread for the value the worker emitted last
UpdateProgress ==
    /\ update_thread = "started"
    /\ progress # -1
    /\ \E value \in {progress} :
         start_button' = IF value = 100 THEN TRUE ELSE start_button
    /\ UNCHANGED <<pc, err, dfuVars, fw, linkVars, progress, device_ok, leqiVars,
                   hostVars, toolVars, in_buf, update_thread>>

\* FirmwareUpdateGUI.exception_messagebox: the slot of exception_signal, which the
\* worker emits from its except clauses
ExceptionMessagebox ==
    /\ update_thread = "started"
    /\ pc = "failed"
    /\ start_button' = TRUE
    /\ UNCHANGED <<pc, err, dfuVars, fw, linkVars, progress, device_ok, leqiVars,
                   hostVars, toolVars, in_buf, update_thread>>

NextGui ==
    \/ StartUpdate
    \/ WorkerStep
    \/ UpdateProgress
    \/ ExceptionMessagebox

\* a flash started from the window
SpecGui == Init /\ [][NextGui]_vars

\* the worker thread is executing FirmwareUpdateThread.run
WorkerRunning == update_thread = "started" /\ pc \in {"new", "loaded", "run"}

IsDfu == serial_conn = "open"

\* DFU.run called on a driver whose load_file was not called or raised: run() has
\* no test of self.fw and enters its loop in state UID
RunUnloaded ==
    /\ IsDfu
    /\ pc = "new" \/ (pc = "failed" /\ err = "InvalidFirmware")
    /\ pc' = "run"
    /\ err' = "none"
    /\ UNCHANGED <<dfuVars, fw, linkVars, progress, device_ok, leqiVars, hostVars,
                   toolVars, in_buf, guiVars>>

\* LeqiFlasher.run called on a driver whose load_file was not called or raised:
\* self.encrypted_fw is still None
LeqiRunUnloaded ==
    /\ ~IsDfu
    /\ pc = "new" \/ (pc = "failed" /\ err = "NotLeqi")
    /\ pc' = "failed"
    /\ err' = "NoFirmwareLoaded"
    /\ UNCHANGED <<dfuVars, fw, linkVars, progress, device_ok, leqiVars, hostVars,
                   toolVars, in_buf, guiVars>>

NextUnloaded ==
    \/ IsDfu /\ LoadAnyFile
    \/ ~IsDfu /\ LeqiLoadFile
    \/ RunUnloaded
    \/ RunGetUid
    \/ LeqiRunUnloaded

\* either driver, constructed
InitUnloaded == InitSrc \/ InitLeqi

\* the two drivers, run() being called only where load_file has not succeeded
SpecUnloaded == InitUnloaded /\ [][NextUnloaded]_vars

\* C34: run() on a driver without a loaded file writes nothing to the link
C34_NoWriteUnloaded == tx.cmd = "none" /\ tx_tick = 0

\* the part of C34 about the Leqi driver
C34_LeqiPart == ~IsDfu => (tx.cmd = "none" /\ tx_tick = 0 /\ pc # "done")

\* C35: when the dispatcher of base_flasher has returned a LeqiFlasher for a file,
\* LeqiFlasher.load_file on that file succeeds
C35_LeqiLoadSucceeds == (flasher = "LeqiFlasher" /\ fw # NoFile) => pc = "loaded"

\* the part of C35 about files that are no archives
C35_PlainPart ==
    (flasher = "LeqiFlasher" /\ fw # NoFile /\ path.members = <<>>) => pc = "loaded"

(***************************************************************************)
(* C36: the status callback of DFU.run                                     *)
(***************************************************************************)
\* DFU.emit_state: the status callback is invoked when the state differs from the
\* one of the emit_state before
status_invoked(prev, st) == prev # st

\* C36: emit_state invokes the status callback in the first iteration the loop
\* spends in a state, the first iteration of UID included, and in no later one
C36_StatusOnce ==
    [][(pc = "run" /\ fw_pc = "none" /\ vars' # vars) =>
           (status_invoked(prev_state, state) <=> attempts = 0)]_vars

\* the part of C36 about the states entered after the initial one
C36_LaterStates ==
    [][(pc = "run" /\ fw_pc = "none" /\ vars' # vars /\ ~(state = "UID" /\ attempts = 0)) =>
           (status_invoked(prev_state, state) <=> attempts = 0)]_vars

(***************************************************************************)
(* C37: the size field of the Start frame                                  *)
(***************************************************************************)
\* the 16-bit little-endian value of two bytes
U16Le(b) == b[1] + 256 * b[2]

\* C37: the size field of a Start frame written is two bytes, the 16-bit
\* little-endian encoding of fw_size itself; with fw_size > 0xFFFF the run fails
\* without having written a frame
C37_StartSize ==
    /\ tx.cmd = "start" =>
           /\ Len(tx.size_le) = 2
           /\ tx.size_le[1] \in 0..255 /\ tx.size_le[2] \in 0..255
           /\ U16Le(tx.size_le) = fw_size
    /\ (fw_size > 65535 /\ pc \notin {"new", "loaded", "start"}) =>
           (pc = "failed" /\ tx.cmd = "none" /\ tx_tick = 0)

\* C37 witness: the Start frame of an image of 0xFFFF bytes, the largest that
\* fits, was written with the size field FF FF and acknowledged
C37_Witness ==
    /\ tx.cmd = "start"
    /\ tx.size_le = <<255, 255>>
    /\ fw_size = 65535
    /\ FileLen(fw) = 65535
    /\ pc = "data"

\* the run of an image of 0x10000 bytes has failed at the size field
C37_TooLarge == fw_size = 65536 /\ pc = "failed" /\ err = "StructError"

(***************************************************************************)
(* C38: the simulation builds the frames of the real run                   *)
(***************************************************************************)
\* the frame at position i of a complete transfer: the Start frame (i = 0), the
\* Data frames 1..ceil(fw_size / 128), the End frame
TransferFrame(i) ==
    IF i = 0
    THEN LET size == <<fw_size % 256, fw_size \div 256>>
         IN  [cmd |-> "start", size_le |-> size,
              crc16 |-> struct_pack_H_be(
                            crc16_standard(<<90, 18, 3, 6, 49, 0>> \o size \o <<0, 0>>))]
    ELSE IF i = DataFrames + 1
    THEN [cmd |-> "end", crc16 |-> struct_pack_H_be(crc16_standard(<<90, 18, 5, 0>>))]
    ELSE LET off == (i - 1) * 128
             data == PadToChunk(BSlice(FwRuns(FileLen(fw)), off, Min(off + 128, fw_size)))
         IN  [cmd |-> "data", offset |-> off, data |-> data,
              crc16 |-> [crc16_of |-> <<off, data>>]]

\* the step builds a frame in simulation, or writes one in a run whose controller
\* has acknowledged everything, this frame included
BuildsFrame ==
    \/ pc \in {"sim_start", "sim_data", "sim_end"} /\ tx' # tx
    \/ pc \in {"start", "data", "end"} /\ Writes /\ device_ok'

\* the position of the frame in tx: -1 before the first frame
FramePos(frame, n) ==
    IF frame.cmd = "start" THEN 0
    ELSE IF frame.cmd = "data" THEN n
    ELSE IF frame.cmd = "end" THEN DataFrames + 1
    ELSE -1

\* C38: in simulation and in a run against a controller that acknowledges
\* everything alike, the frames are the Start frame with the size field of
\* fw_size, then the ceil(fw_size / 128) Data frames, then one End frame, each
\* right after the one before; and both finish by reporting progress 100
C38_SimulationFrames ==
    [][/\ BuildsFrame =>
              /\ FramePos(tx', chunk_num') = FramePos(tx, chunk_num) + 1
              /\ tx' = TransferFrame(FramePos(tx', chunk_num'))
       /\ (pc' = "done" /\ pc # "done") =>
              (progress' = 100 /\ tx' = TransferFrame(DataFrames + 1))]_vars

\* C38 witness: the simulation of the 1100-byte image has built its ninth Data
\* frame, with 52 bytes of padding
C38_Witness ==
    /\ pc = "sim_end"
    /\ tx_tick = 0
    /\ tx.cmd = "data"
    /\ tx.offset = 1024
    /\ tx.data = <<[src |-> "fw", lo |-> 1024, hi |-> 1100],
                   [src |-> "pad", lo |-> 0, hi |-> 52]>>


(***************************************************************************)
(* crc16_standard alone, and the CRC field of the frames                   *)
(***************************************************************************)

\* longest byte string of CrcInputs drawn over CrcBytes
MaxCrcLen == 3

\* byte values for the strings: both ends of the range and both sides of bit 7
CrcBytes == {0, 1, 128, 255}

\* the ASCII bytes of "123456789"
CheckString == <<49, 50, 51, 52, 53, 54, 55, 56, 57>>

\* arguments for crc16_standard: every string of up to MaxCrcLen bytes over
\* CrcBytes, the check string, and the End and Start packets run() builds
CrcInputs ==
    UNION {[1..n -> CrcBytes] : n \in 0..MaxCrcLen}
        \cup {CheckString, end_packet}
        \cup {start_packet(struct_pack_H(size).bytes) : size \in {1024, 65535}}

\* crc16_standard applied to the argument
Crc16Standard ==
    /\ output = <<>>
    /\ output' = <<crc16_standard(input)>>
    /\ UNCHANGED <<pc, err, dfuVars, fw, linkVars, progress, device_ok, leqiVars,
                   hostVars, path, fw_type, flasher, input, in_buf>>
    /\ UNCHANGED guiVars

InitCrc == InitApply(CrcInputs)

\* the function on its arguments, and the Leqi driver where it was constructed
\* by hand (no argument is held)
NextCrc ==
    \/ Crc16Standard
    \/ input = <<>> /\ NextLeqi

SpecCrc == InitCrc /\ [][NextCrc]_vars

\* v with bit p (given as the power of two) inverted
FlipBit(v, p) == IF (v \div p) % 2 = 1 THEN v - p ELSE v + p

\* v + (x^16 + x^12 + x^5 + 1) * p over GF(2), p a power of two
AddDivisor(v, p) == FlipBit(FlipBit(FlipBit(FlipBit(v, 65536 * p), 4096 * p), 32 * p), p)

RECURSIVE PolyMod(_, _)
\* the remainder of v by x^16 + x^12 + x^5 + 1 over GF(2), v of degree at most 16 + k
PolyMod(v, k) ==
    IF k < 0 THEN v
    ELSE IF v >= 65536 * (2 ^ k) THEN PolyMod(AddDivisor(v, 2 ^ k), k - 1)
    ELSE PolyMod(v, k - 1)

RECURSIVE PolyRems(_, _)
\* the remainders of the prefixes of the message m, its bytes taken as
\* polynomials with bit 7 the highest power
PolyRems(rems, m) ==
    IF Len(rems) > Len(m) THEN rems
    ELSE PolyRems(Append(rems, PolyMod((256 * rems[Len(rems)]) + m[Len(rems)], 7)), m)

\* CRC-16/XMODEM by its definition: the remainder of data * x^16 by the
\* polynomial 0x1021, from a zero register, nothing reflected, no final XOR
XmodemRef(data) ==
    LET rems == PolyRems(<<0>>, data \o <<0, 0>>) IN rems[Len(rems)]

\* the values the register crc takes while crc16_standard runs on data
RegisterValues(data) ==
    LET regs == crc16_regs(<<0>>, data)
    IN  {regs[i] : i \in 1..Len(regs)}
            \cup {crc16_shifts(Xor(regs[i], data[i] * 256), k) :
                    i \in 1..Len(data), k \in 0..8}

\* the bytes of a Start or End frame ahead of its CRC, read off the frame
FrameAheadOfCrc(frame) ==
    IF frame.cmd = "start" THEN <<90, 18, 3, 6, 49, 0>> \o frame.size_le \o <<0, 0>>
    ELSE <<90, 18, 5, 0>>

\* C39: what crc16_standard returns is the CRC-16/XMODEM of its argument and,
\* like every value its register takes, lies in 0..0xFFFF; it is 0 for the empty
\* string and 0x31C3 for "123456789"; a Start or End frame ends in the
\* CRC-16/XMODEM of the bytes ahead of it, high byte first, and the CRC of a Data
\* frame is taken over that frame's own offset and data
C39_Crc16Xmodem ==
    /\ output # <<>> =>
         /\ output[1] = XmodemRef(input)
         /\ output[1] \in 0..65535
         /\ RegisterValues(input) \subseteq 0..65535
         /\ (input = <<>> => output[1] = 0)
         /\ (input = CheckString => output[1] = 12739)
    /\ tx.cmd \in {"start", "end"} =>
         /\ Len(tx.crc16) = 2
         /\ (256 * tx.crc16[1]) + tx.crc16[2] = XmodemRef(FrameAheadOfCrc(tx))
    /\ tx.cmd = "data" => tx.crc16 = [crc16_of |-> <<tx.offset, tx.data>>]

\* C39 witness: crc16_standard returned 0x31C3 for the check string
C39_Witness == input = CheckString /\ output = <<12739>>


(***************************************************************************)
(* keygen.gen_key                                                          *)
(***************************************************************************)

\* length of the key table: sign_rand allocates it, the loop of gen_key ends there
KEY_SIZE == 176

\* dst[lo:hi] = four for a slice of four bytes (Python offsets)
AssignSlice(dst, lo, four) == SubSeq(dst, 1, lo) \o four \o SubSeq(dst, lo + 5, Len(dst))

\* mutant of gen_key_local: the substituted bytes are taken in the order they lie
gen_key_local_unrotated(dst, j, lookup_table_0, lookup_table_1) ==
    IF j % 16 # 0 THEN SubSeq(dst, j - 3, j)
    ELSE <<Xor(lookup_table_0[dst[j - 3]], lookup_table_1[j \div 16]),
           lookup_table_0[dst[j - 2]],
           lookup_table_0[dst[j - 1]],
           lookup_table_0[dst[j]]>>

\* gen_key, lines 36-46: local for the pass at offset j (dst[k] of the source is
\* dst[k + 1] here)
gen_key_local(dst, j, lookup_table_0, lookup_table_1) ==
    IF j % 16 # 0 THEN SubSeq(dst, j - 3, j)
    ELSE <<Xor(lookup_table_0[dst[j - 2]], lookup_table_1[j \div 16]),
           lookup_table_0[dst[j - 1]],
           lookup_table_0[dst[j]],
           lookup_table_0[dst[j - 3]]>>

\* gen_key, one pass of the loop at offset j: the copy of dst[j-16:j-12], local,
\* and the XOR of lines 48-49
gen_key_pass(dst, j, lookup_table_0, lookup_table_1) ==
    LET copied == AssignSlice(dst, j, SubSeq(dst, j - 15, j - 12))
        local == gen_key_local(copied, j, lookup_table_0, lookup_table_1)
    IN  AssignSlice(copied, j, [i \in 1..4 |-> Xor(copied[j + i], local[i])])

RECURSIVE gen_key_dsts(_, _, _)
\* the loop of gen_key: dsts holds dst as line 27 left it and then after each pass
gen_key_dsts(dsts, lookup_table_0, lookup_table_1) ==
    IF 16 + (4 * (Len(dsts) - 1)) >= KEY_SIZE THEN dsts
    ELSE gen_key_dsts(Append(dsts, gen_key_pass(dsts[Len(dsts)], 16 + (4 * (Len(dsts) - 1)),
                                                lookup_table_0, lookup_table_1)),
                      lookup_table_0, lookup_table_1)

\* gen_key: dst as the call leaves it
gen_key(dst, src, lookup_table_0, lookup_table_1) ==
    LET dsts == gen_key_dsts(<<PySlice(src, 0, 16) \o SubSeq(dst, 17, Len(dst))>>,
                             lookup_table_0, lookup_table_1)
    IN  dsts[Len(dsts)]

\* 16-byte UIDs: constant ones and ones that differ in every byte
KeyUids == {[i \in 1..16 |-> ((a * i) + b) % 256] : a \in {0, 1, 37}, b \in {0, 255}}

\* substitution tables of 256 bytes: the identity, a permutation without fixed
\* points, and a table that is not a permutation
KeySboxes ==
    {[x \in 0..255 |-> x], [x \in 0..255 |-> ((7 * x) + 99) % 256],
     [x \in 0..255 |-> (x * x) % 256]}

\* round-constant tables as sign_rand builds them, entry 0 never filled from the
\* firmware, with another value in entry 0 as well
KeyRcons ==
    {[k \in 0..10 |-> IF k = 0 THEN z ELSE (c * k) % 256] : z \in {0, 255}, c \in {0, 27}}

\* arguments for gen_key
KeyInputs ==
    {[src |-> src_, lookup_table_0 |-> t0, lookup_table_1 |-> t1] :
        src_ \in KeyUids, t0 \in KeySboxes, t1 \in KeyRcons}

\* sign_rand, lines 133-134: gen_key on a fresh bytearray(176)
GenKey ==
    /\ output = <<>>
    /\ output' = <<gen_key([i \in 1..KEY_SIZE |-> 0], input.src,
                           input.lookup_table_0, input.lookup_table_1)>>
    /\ UNCHANGED <<pc, err, dfuVars, fw, linkVars, progress, device_ok, leqiVars,
                   hostVars, path, fw_type, flasher, input, in_buf>>
    /\ UNCHANGED guiVars

InitKey == InitApply(KeyInputs)

\* gen_key alone, over the arguments
SpecKey == InitKey /\ [][GenKey]_vars

\* byte k (Python offset) of a table
KeyAt(K, k) == K[k + 1]

\* the four bytes L of the claim for offset j of table K
KeyL(K, j, SBOX, RCON) ==
    IF j % 16 # 0
    THEN <<KeyAt(K, j - 4), KeyAt(K, j - 3), KeyAt(K, j - 2), KeyAt(K, j - 1)>>
    ELSE <<Xor(SBOX[KeyAt(K, j - 3)], RCON[j \div 16]), SBOX[KeyAt(K, j - 2)],
           SBOX[KeyAt(K, j - 1)], SBOX[KeyAt(K, j - 4)]>>

\* C40: the table gen_key leaves has 176 bytes, starts with the UID, and for
\* j = 16, 20, ..., 172 its bytes j..j+3 are bytes j-16..j-13 XOR L, L being the
\* four bytes before j, or for j a multiple of 16 those bytes rotated by one,
\* substituted through SBOX and the first XORed with RCON[j/16]; the arguments
\* are as they were
C40_GenKey ==
    output # <<>> =>
        LET K == output[1]
        IN  /\ Len(K) = KEY_SIZE
            /\ \A k \in 0..15 : KeyAt(K, k) = input.src[k + 1]
            /\ \A b \in 4..43 : \A i \in 0..3 :
                 KeyAt(K, (4 * b) + i)
                     = Xor(KeyAt(K, (4 * b) + i - 16),
                           KeyL(K, 4 * b, input.lookup_table_0, input.lookup_table_1)[i + 1])
            /\ input \in KeyInputs

\* C40 witness: a table was made from a UID of sixteen different bytes with a
\* substitution table that moves every byte and non-zero round constants
C40_Witness ==
    /\ output # <<>>
    /\ input.src = [i \in 1..16 |-> (37 * i) % 256]
    /\ input.lookup_table_0[0] = 99
    /\ input.lookup_table_1[1] = 27
    /\ output[1][17] # output[1][1]

====
